---- MODULE Spec2Model ----
(***************************************************************************)
(* A model of gorilla-go/go-framework: the token-bucket rate limiter and   *)
(* its middlewares, the route builder, the gzip response writer, the       *)
(* session flash helpers, user registration, the session start, the        *)
(* template cache, the recovery middleware and the event bus.              *)
(*                                                                         *)
(* Every component has its own specification (SpecLimiter, SpecIP, ...);   *)
(* a specification leaves the variables of the other components alone.    *)
(***************************************************************************)
EXTENDS Integers, Sequences, FiniteSets, TLC

VARIABLES
    now,        \* the clock read by time.Now(), [s, ns]
    limiter,    \* the RateLimiter of RateLimitMiddleware
    sleeps,     \* how many times the clock has advanced
    burst,      \* observer: the idle time before the latest run of back-to-back
                \* Allow() calls, and what each call of the run returned
    ctx,        \* the gin.Context of the latest request served
    heap,       \* IPRateLimitMiddleware: the RateLimiter objects ever created
    limiters,   \* IPRateLimitMiddleware: the sync.Map, client IP -> object (0: absent)
    reqs,       \* IPRateLimitMiddleware: the requests in flight, each with its
                \* client IP and the limiter object LoadOrStore gave it (0: none)
    sweep,      \* IPRateLimitMiddleware: the clean-up goroutine
    ipconf,     \* IPRateLimitMiddleware: the rate and capacity it was built with
    started,    \* IPRateLimitMiddleware: how many requests have arrived
    admits,     \* IPRateLimitMiddleware: observer: the client IP and the instant
                \* of every request admitted
    route,      \* route builder: the route registered (prefix, template, gin path,
                \* parameters with their patterns)
    hit,        \* route builder: the latest request and what it met
    routes,     \* pkg/router: the route table, name -> Route
    builders,   \* pkg/router: the RouteBuilders made so far (basePath, and the
                \* prefix of the gin group each registers on)
    ginRoutes,  \* pkg/router: what the gin engine serves, (method, full path)
    built,      \* pkg/router: the latest BuildUrl call and its outcome
    urlconf,    \* pkg/router: which RouteBuilder is in use, and how many
                \* middlewares the engine had when its groups were made
    reg,        \* pkg/router: the latest registration and its outcome
    gzreq,      \* gzip: the request being served
    header,     \* gzip: the header map of the response
    gzw,        \* gzip: the gzipWriter the request was given
    rw,         \* gzip: gin's response writer, and what it has sent
    gzpool,     \* gzip: the writers in gzipWriterPool
    gzrun,      \* gzip: where the request is, whether its writer is wrapped,
                \* and how many operations its handler has made
    session,    \* session: the Values of the session of the request being
                \* served, and whether they were written since the last save
    store,      \* session: the Values the session store holds
    flash,      \* session: the latest two calls of SetFlash / GetFlash and
                \* what they returned
    users,      \* users: the rows of the users table
    nextID,     \* users: the next value of the table's auto-increment
    calls,      \* users: each caller's Register call: where it is, its
                \* request and what it returned
    sescfg,     \* session start: the SessionConfig loaded, and whether redis answers
    options,     \* session start: the sessions.Options the store was given
    tm,         \* templates: the TemplateManager (mode, cache, load statistics)
    disk,       \* templates: how many times the template files have been edited
    loads,       \* templates: each renderer's call of loadTemplate and its outcome
    recconf,    \* recovery: which RecoveryMiddleware is in use, and cfg.IsDebug()
    rctx,        \* recovery: the chain of the latest request and its gin.Context at the end
    eb,         \* event bus: the listeners of the event and the indexes onceMap holds for it
    emits,      \* event bus: each goroutine's Emit call: where it is and what it copied
    heard       \* event bus: observer: the registrations made, the listeners the
                \* bus ought to hold, and how often each was invoked and was due

clockVars == <<now, sleeps>>

limiterVars == <<limiter, burst>>

ipVars == <<heap, limiters, reqs, sweep, ipconf, started, admits>>

routeVars == <<route, hit>>

urlVars == <<routes, builders, ginRoutes, built, urlconf, reg>>

gzipVars == <<gzreq, header, gzw, rw, gzpool, gzrun>>

flashVars == <<session, store, flash>>

userVars == <<users, nextID, calls>>

sessVars == <<sescfg, options>>

tmplVars == <<tm, disk, loads>>

recoverVars == <<recconf, rctx>>

busVars == <<eb, emits, heard>>

vars == <<clockVars, ctx, limiterVars, ipVars, routeVars, urlVars, gzipVars, flashVars,
          userVars,
          sessVars,
          tmplVars,
          recoverVars,
          busVars>>

\* what each specification leaves alone
offLimiter == <<ipVars, routeVars, urlVars, gzipVars, flashVars, userVars, sessVars, tmplVars, recoverVars, busVars>>

offIP == <<limiterVars, routeVars, urlVars, gzipVars, flashVars, userVars, sessVars, tmplVars, recoverVars, busVars>>

offRoute == <<clockVars, ctx, limiterVars, ipVars, urlVars, gzipVars, flashVars, userVars, sessVars, tmplVars, recoverVars, busVars>>

offUrl == <<clockVars, ctx, limiterVars, ipVars, routeVars, gzipVars, flashVars, userVars, sessVars, tmplVars, recoverVars, busVars>>

offFlash == <<clockVars, ctx, limiterVars, ipVars, routeVars, urlVars, gzipVars, userVars, sessVars, tmplVars, recoverVars, busVars>>

offUser == <<clockVars, ctx, limiterVars, ipVars, routeVars, urlVars, gzipVars, flashVars, sessVars, tmplVars, recoverVars, busVars>>

offGzip == <<clockVars, ctx, limiterVars, ipVars, routeVars, urlVars, flashVars, userVars, sessVars, tmplVars, recoverVars, busVars>>

offSession == <<clockVars, ctx, limiterVars, ipVars, routeVars, urlVars, gzipVars, flashVars, userVars, tmplVars, recoverVars, busVars>>

offTemplate == <<clockVars, ctx, limiterVars, ipVars, routeVars, urlVars, gzipVars, flashVars, userVars, sessVars, recoverVars, busVars>>

offRecover == <<clockVars, ctx, limiterVars, ipVars, routeVars, urlVars, gzipVars, flashVars, userVars, sessVars, tmplVars, busVars>>

offBus == <<clockVars, ctx, limiterVars, ipVars, routeVars, urlVars, gzipVars, flashVars, userVars, sessVars, tmplVars, recoverVars>>

(***************************************************************************)
(* Time.  time.Time and time.Duration count nanoseconds in 64 bits; the    *)
(* model keeps them as a pair of seconds and nanoseconds (0 <= ns < 1e9),  *)
(* so that every intermediate value is exact and stays a small integer.    *)
(***************************************************************************)

\* RateLimiter.interval = time.Second, in nanoseconds
Interval == 1000000000

Dur(s, n) == [s |-> s, ns |-> n]

Zero == Dur(0, 0)

DurGE(a, b) == a.s > b.s \/ (a.s = b.s /\ a.ns >= b.ns)

DurGT(a, b) == a.s > b.s \/ (a.s = b.s /\ a.ns > b.ns)

\* t.Add(d)
TimeAdd(t, d) ==
    LET n == t.ns + d.ns
    IN  IF n >= Interval THEN Dur(t.s + d.s + 1, n - Interval)
                         ELSE Dur(t.s + d.s, n)

\* a.Sub(b), for a not before b
TimeSub(a, b) ==
    IF a.ns >= b.ns THEN Dur(a.s - b.s, a.ns - b.ns)
                    ELSE Dur(a.s - b.s - 1, a.ns + Interval - b.ns)

(***************************************************************************)
(* The token bucket (pkg/middleware/ratelimit.go).                         *)
(***************************************************************************)

\* int(elapsed.Nanoseconds() * int64(rate) / interval.Nanoseconds()):
\* with elapsed = s*1e9 + ns this is s*rate + (ns*rate) \div 1e9, and the
\* last quotient is taken in two limbs of 1e3 and 1e6.
NewTokens(elapsed, rate) ==
    elapsed.s * rate
      + (((elapsed.ns \div 1000) * rate + ((elapsed.ns % 1000) * rate) \div 1000)
           \div 1000000)

\* time.Duration(newTokens) * interval / time.Duration(rate), truncated:
\* with newTokens = q*rate + m and interval = a*rate + b this is
\* q seconds and m*a + (m*b) \div rate nanoseconds.
TokenDuration(newTokens, rate) ==
    LET q == newTokens \div rate
        m == newTokens % rate
    IN  Dur(q, m * (Interval \div rate) + (m * (Interval % rate)) \div rate)

NewRateLimiter(rate, capacity, t) ==
    [rate |-> rate, capacity |-> capacity, tokens |-> capacity,
     lastToken |-> t, lastAccess |-> t]

\* the refill of Allow() without the clamp to capacity
RefillNoClamp(r, t) ==
    LET newTokens == NewTokens(TimeSub(t, r.lastToken), r.rate)
    IN  IF newTokens > 0
        THEN [r EXCEPT !.tokens = r.tokens + newTokens,
                       !.lastToken = TimeAdd(r.lastToken, TokenDuration(newTokens, r.rate)),
                       !.lastAccess = t]
        ELSE [r EXCEPT !.lastAccess = t]

\* Allow(), lines 42-61: note the access, mint the tokens of the elapsed
\* time, advance lastToken by the time they stand for, clamp to capacity
Refill(r, t) ==
    LET newTokens == NewTokens(TimeSub(t, r.lastToken), r.rate)
    IN  IF newTokens > 0
        THEN [r EXCEPT !.tokens = IF r.tokens + newTokens > r.capacity
                                  THEN r.capacity ELSE r.tokens + newTokens,
                       !.lastToken = TimeAdd(r.lastToken, TokenDuration(newTokens, r.rate)),
                       !.lastAccess = t]
        ELSE [r EXCEPT !.lastAccess = t]

\* Allow() at time t: the limiter afterwards and the value returned
Allow(r, t) ==
    LET f == Refill(r, t)
    IN  IF f.tokens > 0
        THEN [r |-> [f EXCEPT !.tokens = f.tokens - 1], ok |-> TRUE]
        ELSE [r |-> f, ok |-> FALSE]

\* IsExpired(ttl) at time t
IsExpired(r, ttl, t) == DurGT(TimeSub(t, r.lastAccess), ttl)

(***************************************************************************)
(* Error codes and the response envelope (pkg/errors/app.go,               *)
(* pkg/response/response.go).                                              *)
(***************************************************************************)

Success == 200

BadRequest == 400

TooManyRequests == 429

InternalServerError == 500

ValidationError == 10001

DatabaseError == 10002

\* AppError.HTTPStatus()
HTTPStatus(code) ==
    IF code >= 400 /\ code < 600 THEN code
    ELSE IF code = ValidationError THEN BadRequest
    ELSE InternalServerError

(***************************************************************************)
(* One request through gin: the context walks the handler chain; a         *)
(* middleware that returns without calling Next() is followed by the next  *)
(* handler unless the context was aborted.                                 *)
(***************************************************************************)

\* the chain r.Use(RateLimitMiddleware(...)) builds in front of a route handler
Handlers == <<"RateLimit", "Handler">>

\* the context gin hands to the first handler of the chain
NewContext(allowed) ==
    [index |-> 0, status |-> Success, written |-> FALSE, code |-> 0,
     aborted |-> FALSE, handlerRan |-> FALSE, allowed |-> allowed]

\* c.JSON(status, Response{Code: code, ...}): the status of a response that
\* has begun cannot change any more
JSON(c, status, code) ==
    IF c.written THEN c
    ELSE [c EXCEPT !.status = status, !.code = code, !.written = TRUE]

\* c.Abort()
Abort(c) == [c EXCEPT !.aborted = TRUE]

\* response.Fail without its c.Abort()
FailNoAbort(c, code) == JSON(c, HTTPStatus(code), code)

\* response.Fail(c, err) for an AppError of the given code
Fail(c, code) == Abort(JSON(c, HTTPStatus(code), code))

\* the route handler: response.Success(c, data)
Handler(c) == JSON([c EXCEPT !.handlerRan = TRUE], Success, Success)

RECURSIVE Next(_)
RECURSIVE Invoke(_, _)

\* the body of the handler RateLimitMiddleware / IPRateLimitMiddleware
\* returns, after limiter.Allow() returned c.allowed
RateLimitHandler(c) ==
    IF ~c.allowed THEN Fail(c, TooManyRequests) ELSE Next(c)

Invoke(name, c) ==
    IF name = "RateLimit" THEN RateLimitHandler(c) ELSE Handler(c)

\* c.Next(): index++, then run handlers[index] and index++ while some are left
Next(c) ==
    LET RECURSIVE Loop(_)
        Loop(d) ==
            IF ~d.aborted /\ d.index <= Len(Handlers)
            THEN LET e == Invoke(Handlers[d.index], d)
                 IN  Loop([e EXCEPT !.index = @ + 1])
            ELSE d
    IN  Loop([c EXCEPT !.index = @ + 1])

\* the engine serving one request whose Allow() returned allowed
Serve(allowed) == Next(NewContext(allowed))

(***************************************************************************)
(* SpecLimiter: one RateLimiter behind RateLimitMiddleware; requests       *)
(* arrive at arbitrary instants.                                           *)
(***************************************************************************)

MaxCapacity == 2

MaxSleeps == 3

Rates == {1, 2, 6}

\* the idle periods tried between two requests, in nanoseconds and seconds
Delays == {Dur(0, 1), Dur(0, 166666666), Dur(0, 166666667), Dur(0, 333333333),
           Dur(0, 500000000), Dur(1, 0)}

\* the longest run of back-to-back calls followed
MaxBurst == MaxCapacity + 2

NoContext == NewContext(TRUE)

\* no RateLimitMiddleware in use
IdleLimiter ==
    /\ now = Zero /\ sleeps = 0 /\ ctx = NoContext
    /\ limiter = NewRateLimiter(1, 1, Zero)
    /\ burst = [idle |-> Zero, results |-> <<>>]

\* IPRateLimitMiddleware not in use
IdleIP ==
    /\ heap = <<>>
    /\ limiters = [ip \in {} |-> 0]
    /\ reqs = <<>>
    /\ sweep = [nextTick |-> Zero, todo |-> {}, expired |-> {}]
    /\ ipconf = [rate |-> 1, capacity |-> 1]
    /\ started = 0
    /\ admits = <<>>

\* no route registered
IdleRoute ==
    /\ route = [prefix |-> <<>>, template |-> <<>>, ginPath |-> <<>>, params |-> <<>>]
    /\ hit = [path |-> <<>>, status |-> 0, aborted |-> FALSE, handlerRan |-> FALSE,
              params |-> <<>>, id |-> <<>>]

\* no RouteBuilder of pkg/router made
IdleUrl ==
    /\ routes = <<>>
    /\ builders = <<>>
    /\ ginRoutes = {}
    /\ built = <<>>
    /\ urlconf = <<>>
    /\ reg = <<>>

\* the gzip middleware not in use
IdleGzip ==
    /\ gzreq = <<>> /\ header = <<>> /\ gzw = <<>> /\ rw = <<>>
    /\ gzpool = <<>> /\ gzrun = <<>>

\* no session in use
IdleFlash == session = <<>> /\ store = <<>> /\ flash = <<>>

\* no UserService in use
IdleUser == users = <<>> /\ nextID = 0 /\ calls = <<>>

\* no session middleware built
IdleSession == sescfg = <<>> /\ options = <<>>

\* no TemplateManager made
IdleTemplate == tm = <<>> /\ disk = 0 /\ loads = <<>>

\* no RecoveryMiddleware in use
IdleRecover == recconf = <<>> /\ rctx = <<>>

IdleBus == eb = <<>> /\ emits = <<>> /\ heard = <<>>

InitLimiter ==
    /\ IdleIP /\ IdleRoute /\ IdleUrl /\ IdleGzip /\ IdleFlash /\ IdleUser /\ IdleSession /\ IdleTemplate /\ IdleRecover /\ IdleBus
    /\ now = Zero
    /\ \E rate \in Rates, capacity \in 1..MaxCapacity :
          limiter = NewRateLimiter(rate, capacity, now)
    /\ sleeps = 0
    /\ burst = [idle |-> Zero, results |-> <<>>]
    /\ ctx = NoContext

\* time passes
Sleep(d) ==
    /\ sleeps < MaxSleeps
    /\ now' = TimeAdd(now, d)
    /\ sleeps' = sleeps + 1
    /\ UNCHANGED <<limiterVars, ctx, offLimiter>>

\* a request arrives at RateLimitMiddleware's handler
Request ==
    LET a == Allow(limiter, now)
        gap == TimeSub(now, limiter.lastAccess)
    IN  /\ gap # Zero \/ Len(burst.results) < MaxBurst
        /\ limiter' = a.r
        /\ ctx' = Serve(a.ok)
        /\ burst' = IF gap # Zero \/ burst.results = <<>>
                    THEN [idle |-> gap, results |-> <<a.ok>>]
                    ELSE [burst EXCEPT !.results = Append(@, a.ok)]
        /\ UNCHANGED <<clockVars, offLimiter>>

NextLimiter == (\E d \in Delays : Sleep(d)) \/ Request

SpecLimiter == InitLimiter /\ [][NextLimiter]_vars

\* C1: after an idle period of at least capacity/rate seconds, the first
\* capacity back-to-back Allow() calls return true and the next one false.
\* (idle >= capacity/rate seconds exactly when idle*rate/interval >= capacity.)
C1_ExactBurst ==
    NewTokens(burst.idle, limiter.rate) >= limiter.capacity
        => \A i \in 1..Len(burst.results) :
              burst.results[i] = (i <= limiter.capacity)

\* C2: the token count never exceeds the capacity, whatever the idle times.
C2_TokensWithinCapacity == limiter.tokens <= limiter.capacity

\* an Allow() that followed an idle period minting more than capacity tokens
C2_Witness ==
    /\ Len(burst.results) = 1
    /\ NewTokens(burst.idle, limiter.rate) > limiter.capacity
    /\ limiter.tokens = limiter.capacity - 1

\* C10: a request whose Allow() returned false is answered 429 and the
\* handlers after the limiter do not run for it.
C10_DeniedGets429 ==
    ~ctx.allowed =>
        /\ ctx.written /\ ctx.status = 429 /\ ctx.code = TooManyRequests
        /\ ~ctx.handlerRan

\* a denied request has been served
C10_Witness == ~ctx.allowed /\ ctx.written /\ burst.results # <<>>

(***************************************************************************)
(* SpecIP: IPRateLimitMiddleware.  One RateLimiter per client IP in a      *)
(* sync.Map, created on the first request of the IP; a goroutine wakes     *)
(* every cleanupInterval and deletes the limiters idle for more than ttl.  *)
(* A request is two steps (LoadOrStore, then Allow and the response), the  *)
(* sweep of one key is two steps (IsExpired, then Delete).                 *)
(***************************************************************************)

IPs == {"a", "b"}

ReqSlots == {1, 2}

MaxStarted == 4

MaxIPSleeps == 2

\* cleanupInterval := 10 * time.Minute
CleanupInterval == Dur(600, 0)

\* ttl := 1 * time.Hour
TTL == Dur(3600, 0)

IPDelays == {Dur(1, 0), Dur(3600, 1)}

IPRates == {1}

\* every request is filed under one key, whatever its client IP
SharedKey(ip) == "a"

\* ip := c.ClientIP(), the key of the limiter
ClientKey(ip) == ip

NoReq == [ip |-> "", obj |-> 0]

InitIP ==
    /\ IdleLimiter /\ IdleRoute /\ IdleUrl /\ IdleGzip /\ IdleFlash /\ IdleUser /\ IdleSession /\ IdleTemplate /\ IdleRecover /\ IdleBus
    /\ heap = <<>>
    /\ limiters = [k \in IPs |-> 0]
    /\ reqs = [q \in ReqSlots |-> NoReq]
    /\ sweep = [nextTick |-> CleanupInterval, todo |-> {}, expired |-> {}]
    /\ \E rate \in IPRates, capacity \in 1..MaxCapacity :
          ipconf = [rate |-> rate, capacity |-> capacity]
    /\ started = 0
    /\ admits = <<>>

IPSleep(d) ==
    /\ sleeps < MaxIPSleeps
    /\ now' = TimeAdd(now, d)
    /\ sleeps' = sleeps + 1
    /\ UNCHANGED <<ctx, ipVars, offIP>>

\* limiters.LoadOrStore(ip, NewRateLimiter(rate, capacity))
LoadOrStore(q, ip) ==
    LET k == ClientKey(ip)
        fresh == NewRateLimiter(ipconf.rate, ipconf.capacity, now)
    IN  /\ reqs[q] = NoReq
        /\ started < MaxStarted
        /\ started' = started + 1
        /\ IF limiters[k] = 0
           THEN /\ heap' = Append(heap, fresh)
                /\ limiters' = [limiters EXCEPT ![k] = Len(heap) + 1]
                /\ reqs' = [reqs EXCEPT ![q] = [ip |-> ip, obj |-> Len(heap) + 1]]
           ELSE /\ reqs' = [reqs EXCEPT ![q] = [ip |-> ip, obj |-> limiters[k]]]
                /\ UNCHANGED <<heap, limiters>>
        /\ UNCHANGED <<clockVars, ctx, sweep, ipconf, admits, offIP>>

\* limiter.Allow() on the object the request holds, and the response
IPAllow(q) ==
    /\ reqs[q] # NoReq
    /\ LET a == Allow(heap[reqs[q].obj], now)
       IN  /\ heap' = [heap EXCEPT ![reqs[q].obj] = a.r]
           /\ ctx' = Serve(a.ok)
           /\ admits' = IF a.ok THEN Append(admits, [ip |-> reqs[q].ip, at |-> now])
                         ELSE admits
    /\ reqs' = [reqs EXCEPT ![q] = NoReq]
    /\ UNCHANGED <<clockVars, limiters, sweep, ipconf, started, offIP>>

\* the ticker fires: limiters.Range(...) starts over the keys of the map
SweepTick ==
    /\ sweep.todo = {} /\ sweep.expired = {}
    /\ DurGE(now, sweep.nextTick)
    /\ sweep' = [nextTick |-> Dur(((now.s \div CleanupInterval.s) + 1) * CleanupInterval.s, 0),
                 todo |-> {k \in IPs : limiters[k] # 0},
                 expired |-> {}]
    /\ UNCHANGED <<clockVars, ctx, heap, limiters, reqs, ipconf, started, admits, offIP>>

\* the Range callback on key k: limiter.IsExpired(ttl)
SweepVisit(k) ==
    /\ k \in sweep.todo /\ sweep.expired = {}
    /\ sweep' = [sweep EXCEPT
                   !.todo = @ \ {k},
                   !.expired = IF limiters[k] # 0 /\ IsExpired(heap[limiters[k]], TTL, now)
                               THEN {k} ELSE {}]
    /\ UNCHANGED <<clockVars, ctx, heap, limiters, reqs, ipconf, started, admits, offIP>>

\* the Range callback on key k: limiters.Delete(key)
SweepDelete(k) ==
    /\ k \in sweep.expired
    /\ limiters' = [limiters EXCEPT ![k] = 0]
    /\ sweep' = [sweep EXCEPT !.expired = {}]
    /\ UNCHANGED <<clockVars, ctx, heap, reqs, ipconf, started, admits, offIP>>

NextIP ==
    \/ \E d \in IPDelays : IPSleep(d)
    \/ \E q \in ReqSlots, ip \in IPs : LoadOrStore(q, ip)
    \/ \E q \in ReqSlots : IPAllow(q)
    \/ SweepTick
    \/ \E k \in IPs : SweepVisit(k)
    \/ \E k \in IPs : SweepDelete(k)

SpecIP == InitIP /\ [][NextIP]_vars

\* the limiter a new request of the IP would be given
LimiterOf(ip) ==
    IF limiters[ClientKey(ip)] = 0
    THEN NewRateLimiter(ipconf.rate, ipconf.capacity, now)
    ELSE heap[limiters[ClientKey(ip)]]

\* whether a request of the IP arriving now would be allowed
Admits(ip) == Allow(LimiterOf(ip), now).ok

\* the client IP of the request in slot q that takes a step
ActorIP(q) == IF reqs[q] = NoReq THEN reqs'[q].ip ELSE reqs[q].ip

\* C9: a step of a request of one client IP changes neither the limiter of
\* another client IP nor whether a request of that other IP would be allowed.
C9_IndependentLimiters ==
    [][\A q \in ReqSlots :
          reqs'[q] # reqs[q] =>
             \A b \in IPs \ {ActorIP(q)} :
                 /\ Admits(b)' = Admits(b)
                 /\ LimiterOf(b)' = LimiterOf(b)]_vars

\* one IP's limiter is exhausted and has denied a request while the other
\* IP, which has a limiter too, is still admitted
C9_Witness ==
    \E a \in IPs, b \in IPs :
        /\ a # b
        /\ limiters[a] # 0 /\ heap[limiters[a]].tokens = 0 /\ ~Admits(a)
        /\ ~ctx.allowed
        /\ limiters[b] # 0 /\ Admits(b)

(***************************************************************************)
(* Strings are sequences of one-character strings.                         *)
(***************************************************************************)

\* the least index j >= i with s[j] in S, Len(s) + 1 when there is none
FirstIn(s, i, S) ==
    LET J == {j \in i..Len(s) : s[j] \in S}
    IN  IF J = {} THEN Len(s) + 1 ELSE CHOOSE j \in J : \A k \in J : j <= k

\* strings.Index(s, old) + 1: where old first occurs in s, 0 when it does not
Index(s, old) ==
    LET J == {j \in 1..(Len(s) - Len(old) + 1) : SubSeq(s, j, j + Len(old) - 1) = old}
    IN  IF J = {} THEN 0 ELSE CHOOSE j \in J : \A k \in J : j <= k

\* strings.Contains(s, old)
Contains(s, old) == Index(s, old) # 0

\* strings.Replace(s, old, new, 1), old not empty
Replace1(s, old, new) ==
    LET j == Index(s, old)
    IN  IF j = 0 THEN s
        ELSE SubSeq(s, 1, j - 1) \o new \o SubSeq(s, j + Len(old), Len(s))

\* strings.ReplaceAll(s, old, new), old not empty
RECURSIVE ReplaceAll(_, _, _)
ReplaceAll(s, old, new) ==
    LET j == Index(s, old)
    IN  IF j = 0 THEN s
        ELSE SubSeq(s, 1, j - 1) \o new
               \o ReplaceAll(SubSeq(s, j + Len(old), Len(s)), old, new)

\* strings.Split(s, "/")
RECURSIVE Split(_)
Split(s) ==
    LET j == FirstIn(s, 1, {"/"})
    IN  IF j > Len(s) THEN <<s>>
        ELSE <<SubSeq(s, 1, j - 1)>> \o Split(SubSeq(s, j + 1, Len(s)))

(***************************************************************************)
(* The route builder with Flask-style parameters (unnamed/part_013).       *)
(***************************************************************************)

Digit == {"0", "1", "2", "3", "4", "5", "6", "7", "8", "9"}

Lower == {"a", "b", "c", "d", "e", "f", "g", "h", "i", "j", "k", "l", "m",
          "n", "o", "p", "q", "r", "s", "t", "u", "v", "w", "x", "y", "z"}

NoMatch == [found |-> FALSE]

\* one match of <([^>:]+)(?::([^>]+))?> starting at index i of path
MatchAt(path, i) ==
    IF path[i] # "<" THEN NoMatch
    ELSE LET j == FirstIn(path, i + 1, {">", ":"})
         IN  IF j = i + 1 \/ j > Len(path) THEN NoMatch
             ELSE IF path[j] = ">"
             THEN [found |-> TRUE, name |-> SubSeq(path, i + 1, j - 1),
                   pattern |-> <<>>, first |-> i, last |-> j]
             ELSE LET k == FirstIn(path, j + 1, {">"})
                  IN  IF k = j + 1 \/ k > Len(path) THEN NoMatch
                      ELSE [found |-> TRUE, name |-> SubSeq(path, i + 1, j - 1),
                            pattern |-> SubSeq(path, j + 1, k - 1),
                            first |-> i, last |-> k]

\* paramPattern.FindAllStringSubmatch(path, -1), searching from index i
RECURSIVE FindAllFrom(_, _)
FindAllFrom(path, i) ==
    IF i > Len(path) THEN <<>>
    ELSE LET m == MatchAt(path, i)
         IN  IF m.found THEN <<m>> \o FindAllFrom(path, m.last + 1)
             ELSE FindAllFrom(path, i + 1)

\* the loop of parsePath over matches[n..]: result and params so far
RECURSIVE ParseLoop(_, _, _, _, _)
ParseLoop(path, matches, n, result, params) ==
    IF n > Len(matches) THEN [path |-> result, params |-> params]
    ELSE LET m == matches[n]
             fullMatch == SubSeq(path, m.first, m.last)
         IN  ParseLoop(path, matches, n + 1,
                       Replace1(result, fullMatch, <<":">> \o m.name),
                       Append(params,
                              [Name |-> m.name,
                               Pattern |-> IF m.pattern # <<>> THEN m.pattern
                                           ELSE <<".", "*">>]))

\* RouteBuilder.parsePath
parsePath(path) == ParseLoop(path, FindAllFrom(path, 1), 1, path, <<>>)

\* regexp.MustCompile(pattern).MatchString(value), for the patterns in use:
\* a match anywhere in value
MatchString(pattern, value) ==
    CASE pattern = <<".", "*">> -> TRUE
      [] pattern = <<"\\", "d", "+">> -> \E i \in 1..Len(value) : value[i] \in Digit
      [] pattern = <<"[", "a", "-", "z", "]", "+">> ->
             \E i \in 1..Len(value) : value[i] \in Lower

\* gin: the values the segments of path give the ":name" segments of
\* ginPath, as <<name, value>> pairs; found is FALSE when path is not served
MatchRoute(ginPath, path) ==
    LET g == Split(ginPath)
        q == Split(path)
        isParam(n) == g[n] # <<>> /\ g[n][1] = ":"
    IN  IF Len(g) # Len(q)
           \/ \E n \in 1..Len(g) : IF isParam(n) THEN q[n] = <<>> ELSE q[n] # g[n]
        THEN [found |-> FALSE, params |-> <<>>]
        ELSE [found |-> TRUE,
              params |-> [n \in 1..Len(g) |->
                            IF isParam(n) THEN <<SubSeq(g[n], 2, Len(g[n])), q[n]>>
                            ELSE <<<<>>, <<>>>>]]

\* c.Param(name): the value of the first parameter of that name, "" if none
Param(c, name) ==
    LET N == {n \in 1..Len(c.params) : c.params[n][1] = name}
    IN  IF N = {} THEN <<>>
        ELSE c.params[CHOOSE n \in N : \A k \in N : n <= k][2]

\* a validator that reports the bad parameter but lets the chain go on
ValidatorNoAbort(param, c) ==
    IF ~MatchString(param.Pattern, Param(c, param.Name))
    THEN [c EXCEPT !.status = BadRequest]
    ELSE c

\* one handler of createParamValidators up to its c.Next()
Validator(param, c) ==
    IF ~MatchString(param.Pattern, Param(c, param.Name))
    THEN [c EXCEPT !.status = BadRequest, !.aborted = TRUE]
    ELSE c

\* the route handler of SetupRouter: id := c.Param("id"); response.Success
UserHandler(c) ==
    [c EXCEPT !.handlerRan = TRUE, !.id = Param(c, <<"i", "d">>),
              !.status = IF c.status = 0 THEN Success ELSE c.status]

\* the chain append(validators, handlers...) from its n-th handler on
RECURSIVE RunChain(_, _, _)
RunChain(params, n, c) ==
    IF c.aborted THEN c
    ELSE IF n > Len(params) THEN UserHandler(c)
    ELSE RunChain(params, n + 1, Validator(params[n], c))

NotFound == 404

\* the engine serving path against the registered route
ServeRoute(r, path) ==
    LET m == MatchRoute(r.prefix \o r.ginPath, path)
        c == [path |-> path, status |-> 0, aborted |-> FALSE, handlerRan |-> FALSE,
              params |-> m.params, id |-> <<>>]
    IN  IF m.found THEN RunChain(r.params, 1, c)
        ELSE [c EXCEPT !.status = NotFound]

UserTemplate == <<"/", "u", "s", "e", "r", "/", "<", "i", "d", ":", "\\", "d", "+", ">">>

Templates == {UserTemplate, <<"/", "u", "s", "e", "r", "/", "<", "i", "d", ">">>, <<"/", "p", "/", "<", "c", ":", "[", "a", "-", "z", "]", "+", ">", "/", "<", "i", "d", ":", "\\", "d", "+", ">">>}

Prefixes == {<<>>, <<"/", "a", "p", "i">>}

Alphabet == {"a", "4", "2"}

MaxValueLen == 2

\* the values tried for a path segment
Values ==
    UNION {[1..n -> Alphabet] : n \in 1..MaxValueLen} \cup {<<"a", "b", "c">>}

\* the request paths tried: a literal segment and one or two values
Paths ==
    {<<"/">> \o l \o <<"/">> \o v : l \in {<<"u", "s", "e", "r">>, <<"p">>}, v \in Values}
      \cup {<<"/">> \o l \o <<"/">> \o v \o <<"/">> \o w :
               l \in {<<"p">>}, v \in [1..1 -> Alphabet], w \in Values}

InitRoute ==
    /\ IdleLimiter /\ IdleIP /\ IdleUrl /\ IdleGzip /\ IdleFlash /\ IdleUser /\ IdleSession /\ IdleTemplate /\ IdleRecover /\ IdleBus
    /\ \E prefix \in Prefixes, template \in Templates :
          LET parsed == parsePath(template)
          IN  route = [prefix |-> prefix, template |-> template,
                       ginPath |-> parsed.path, params |-> parsed.params]
    /\ hit = [path |-> <<>>, status |-> 0, aborted |-> FALSE, handlerRan |-> FALSE,
              params |-> <<>>, id |-> <<>>]

\* a request for path arrives
RouteRequest(path) ==
    /\ hit' = ServeRoute(route, route.prefix \o path)
    /\ UNCHANGED <<route, offRoute>>

NextRoute == \E path \in Paths : RouteRequest(path)

SpecRoute == InitRoute /\ [][NextRoute]_vars

\* C3: for the route compiled from "/user/<id:\d+>", /user/abc is answered
\* 400 without reaching the handler, and /user/42 reaches the handler with
\* id = "42".
C3_UserRoute ==
    route.template = UserTemplate =>
        /\ hit.path = route.prefix \o <<"/", "u", "s", "e", "r", "/", "a", "b", "c">>
              => hit.status = 400 /\ ~hit.handlerRan
        /\ hit.path = route.prefix \o <<"/", "u", "s", "e", "r", "/", "4", "2">>
              => hit.handlerRan /\ hit.id = <<"4", "2">> /\ hit.status = 200

\* /user/abc has been rejected by the validator of the compiled route
C3_WitnessRejected ==
    /\ route.template = UserTemplate /\ route.ginPath = <<"/", "u", "s", "e", "r", "/", ":", "i", "d">>
    /\ hit.path = route.prefix \o <<"/", "u", "s", "e", "r", "/", "a", "b", "c">> /\ hit.aborted

(***************************************************************************)
(* The named-route builder (pkg/router/builder.go) and its older variant   *)
(* in package middleware (unnamed/part_012).                               *)
(***************************************************************************)

Digits == <<"0", "1", "2", "3", "4", "5", "6", "7", "8", "9">>

\* strconv's decimal digits of n >= 0
RECURSIVE FormatUint(_)
FormatUint(n) ==
    IF n < 10 THEN <<Digits[n + 1]>>
    ELSE FormatUint(n \div 10) \o <<Digits[(n % 10) + 1]>>

\* a value of type any: an int, a string or a bool
IntValue(i) == [t |-> "int", i |-> i, s |-> <<>>, b |-> FALSE]

StringValue(s) == [t |-> "string", i |-> 0, s |-> s, b |-> FALSE]

BoolValue(b) == [t |-> "bool", i |-> 0, s |-> <<>>, b |-> b]

\* fmt.Sprintf("%v", value); the older BuildUrl formats with %d, %t and the
\* string itself, which give the same text
Sprint(value) ==
    CASE value.t = "int" -> IF value.i < 0 THEN <<"-">> \o FormatUint(-value.i)
                            ELSE FormatUint(value.i)
      [] value.t = "string" -> value.s
      [] value.t = "bool" -> IF value.b THEN <<"t", "r", "u", "e">> ELSE <<"f", "a", "l", "s", "e">>

\* strings.Join(parts, "/")
RECURSIVE JoinSlash(_)
JoinSlash(parts) ==
    IF parts = <<>> THEN <<>>
    ELSE IF Len(parts) = 1 THEN parts[1]
    ELSE parts[1] \o <<"/">> \o JoinSlash(Tail(parts))

\* gin's joinPaths(absolutePath, relativePath) for rooted paths without "."
\* segments: path.Join drops empty segments and a trailing slash, and the
\* trailing slash of relativePath is put back
joinPaths(absolutePath, relativePath) ==
    IF relativePath = <<>> THEN absolutePath
    ELSE LET segs == SelectSeq(Split(absolutePath \o <<"/">> \o relativePath),
                               LAMBDA x : x # <<>>)
             finalPath == <<"/">> \o JoinSlash(segs)
         IN  IF relativePath[Len(relativePath)] = "/" /\ finalPath[Len(finalPath)] # "/"
             THEN finalPath \o <<"/">>
             ELSE finalPath

IsWildcard(seg) == seg # <<>> /\ seg[1] \in {":", "*"}

\* gin's tree: two paths of one method that agree up to a segment where both
\* have a wildcard, of different names
WildcardConflict(p, q) ==
    LET a == Split(p)
        b == Split(q)
    IN  \E n \in 1..Len(a) :
            /\ n <= Len(b)
            /\ \A k \in 1..(n - 1) : a[k] = b[k]
            /\ IsWildcard(a[n]) /\ IsWildcard(b[n]) /\ a[n] # b[n]

\* gin panics when asked to serve (method, full), given what it serves
GinPanics(served, method, full) ==
    \E r \in served : r[1] = method /\ (r[2] = full \/ WildcardConflict(r[2], full))

GET == <<"G", "E", "T">>

AnyMethod == <<"A", "N", "Y">>

\* gin's anyMethods, in the order Any registers them
anyMethods == <<<<"G", "E", "T">>, <<"P", "O", "S", "T">>, <<"P", "U", "T">>, <<"P", "A", "T", "C", "H">>, <<"H", "E", "A", "D">>, <<"O", "P", "T", "I", "O", "N", "S">>,
                <<"D", "E", "L", "E", "T", "E">>, <<"C", "O", "N", "N", "E", "C", "T">>, <<"T", "R", "A", "C", "E">>>>

NoRoute == [Name |-> <<>>, Path |-> <<>>, Method |-> <<>>, Handler |-> ""]

\* NewRouteBuilder
NewRouteBuilder == [group |-> FALSE, prefix |-> <<"/">>, basePath |-> <<>>]

\* pkg/router: RouteBuilder.Group
Group(rb, path) ==
    [group |-> TRUE, prefix |-> joinPaths(rb.prefix, path), basePath |-> rb.basePath \o path]

\* package middleware: RouteBuilder.Group, a group of the engine itself
mwGroup(rb, path) ==
    [group |-> TRUE, prefix |-> joinPaths(<<"/">>, path), basePath |-> <<>>]

\* pkg/router: the path registerRoute and ANY record
fullPath(rb, path) == rb.basePath \o path

\* package middleware: the path registerRoute and ANY record; handlers is
\* len(rb.group.Handlers)
mwFullPath(rb, path, handlers) ==
    IF rb.group THEN (IF handlers > 0 THEN <<"/">> ELSE <<>>) \o path
    ELSE path

\* fmt.Sprintf("%s:%s", method, path) when no name is given
DefaultName(method, path, name) ==
    IF name = <<>> THEN method \o <<":">> \o path ELSE name

\* a table that keeps the first route recorded under a name
RecordIfAbsent(table, name, path, method, handler) ==
    IF table[name] # NoRoute THEN table
    ELSE [table EXCEPT ![name] = [Name |-> name, Path |-> path, Method |-> method,
                                  Handler |-> handler]]

\* routes[name] = &Route{...}
Record(table, name, path, method, handler) ==
    [table EXCEPT ![name] = [Name |-> name, Path |-> path, Method |-> method,
                             Handler |-> handler]]
\* pkg/router: the loop of BuildUrl over params[0], a list of <<key, value>>
\* in the order the map yields them
RECURSIVE Substitute(_, _, _)
Substitute(path, params, n) ==
    IF n > Len(params) THEN path
    ELSE LET paramPlaceholder == <<":">> \o params[n][1]
         IN  Substitute(IF Contains(path, paramPlaceholder)
                        THEN ReplaceAll(path, paramPlaceholder, Sprint(params[n][2]))
                        ELSE path,
                        params, n + 1)

\* package middleware: the loop of BuildUrl over params[0]
RECURSIVE mwSubstitute(_, _, _)
mwSubstitute(path, params, n) ==
    IF n > Len(params) THEN path
    ELSE mwSubstitute(ReplaceAll(path, <<":">> \o params[n][1], Sprint(params[n][2])),
                      params, n + 1)

\* pkg/router: the segments of path that still start with ":"
missingParams(path) ==
    IF Contains(path, <<":">>)
    THEN LET parts == SelectSeq(Split(path), LAMBDA part : part # <<>> /\ part[1] = ":")
         IN  [n \in DOMAIN parts |-> Tail(parts[n])]
    ELSE <<>>

\* BuildUrl without the lookup of the name
BuildUrlNoLookup(table, name, params) ==
    LET path == Substitute(table[name].Path, params, 1)
    IN  IF missingParams(path) # <<>>
        THEN [failed |-> TRUE, notFound |-> FALSE, path |-> <<>>]
        ELSE [failed |-> FALSE, notFound |-> FALSE, path |-> path]

\* pkg/router: BuildUrl; failed when it panics
BuildUrl(table, name, params) ==
    IF table[name] = NoRoute
    THEN [failed |-> TRUE, notFound |-> TRUE, path |-> <<>>]
    ELSE LET path == Substitute(table[name].Path, params, 1)
         IN  IF missingParams(path) # <<>>
             THEN [failed |-> TRUE, notFound |-> FALSE, path |-> <<>>]
             ELSE [failed |-> FALSE, notFound |-> FALSE, path |-> path]

\* package middleware: BuildUrl; failed when it returns an error
mwBuildUrl(table, name, params) ==
    IF table[name] = NoRoute
    THEN [failed |-> TRUE, notFound |-> TRUE, path |-> <<>>]
    ELSE [failed |-> FALSE, notFound |-> FALSE,
          path |-> mwSubstitute(table[name].Path, params, 1)]

MaxBuilders == 2

MaxRegs == 2

GroupPaths == {<<"/", "a", "p", "i">>}

RoutePaths == {<<"/", "u", "s", "e", "r", "/", ":", "i", "d">>, <<"/", "u", "/", ":", "i", "d", "/", ":", "i", "d", "x">>}

RouteNames == {<<>>, <<"u", "s", "e", "r", "@", "g", "e", "t">>}

RouteHandlers == {"h"}

\* every key of the route table, and a name never registered
TableNames ==
    RouteNames \cup {DefaultName(m, p, <<>>) : m \in {GET, AnyMethod}, p \in RoutePaths}
      \cup {<<"n", "o", "p", "e">>}

BuildNames == {<<"u", "s", "e", "r", "@", "g", "e", "t">>, <<"n", "o", "p", "e">>}

ParamKeys == {<<"i", "d">>, <<"i", "d", "x">>}

ParamValues == {IntValue(42), StringValue(<<"a">>)}

\* the maps passed to BuildUrl, each in every order its iteration can take
ParamLists ==
    {<<>>} \cup {<<<<k, v>>>> : k \in ParamKeys, v \in ParamValues}
      \cup {<<<<k1, v1>>, <<k2, IntValue(42)>>>> :
               <<k1, k2>> \in {kk \in ParamKeys \X ParamKeys : kk[1] # kk[2]},
               v1 \in {IntValue(42)}}

NoBuild == [n |-> 0, name |-> <<>>, params |-> <<>>, known |-> FALSE, template |-> <<>>,
            failed |-> FALSE, notFound |-> FALSE, path |-> <<>>]

NoReg == [n |-> 0, builder |-> 0, method |-> <<>>, path |-> <<>>, name |-> <<>>,
          handler |-> "", panicked |-> FALSE]

InitUrl ==
    /\ IdleLimiter /\ IdleIP /\ IdleRoute /\ IdleGzip /\ IdleFlash /\ IdleUser /\ IdleSession /\ IdleTemplate /\ IdleRecover /\ IdleBus
    /\ routes = [name \in TableNames |-> NoRoute]
    /\ builders = <<NewRouteBuilder>>
    /\ ginRoutes = {}
    /\ built = NoBuild
    /\ \E variant \in {"router", "middleware"}, handlers \in {0, 1} :
          urlconf = [variant |-> variant, handlers |-> handlers]
    /\ reg = NoReg

\* rb.Group(path) on the b-th builder
NewGroup(b, path) ==
    /\ Len(builders) < MaxBuilders
    /\ builders' = Append(builders,
                          IF urlconf.variant = "router" THEN Group(builders[b], path)
                          ELSE mwGroup(builders[b], path))
    /\ UNCHANGED <<routes, ginRoutes, built, urlconf, reg, offUrl>>

\* rb.GET(path, handler, name) on the b-th builder: registerRoute
registerRoute(b, method, path, name, handler) ==
    LET rb == builders[b]
        key == DefaultName(method, path, name)
        full == joinPaths(rb.prefix, path)
        panics == GinPanics(ginRoutes, method, full)
        recorded == IF urlconf.variant = "router" THEN fullPath(rb, path)
                    ELSE mwFullPath(rb, path, urlconf.handlers)
    IN  /\ reg.n < MaxRegs
        /\ reg' = [n |-> reg.n + 1, builder |-> b, method |-> method, path |-> path,
                   name |-> name, handler |-> handler, panicked |-> panics]
        /\ IF panics THEN UNCHANGED <<routes, ginRoutes>>
           ELSE /\ ginRoutes' = ginRoutes \cup {<<method, full>>}
                /\ routes' = Record(routes, key, recorded, method, handler)
        /\ UNCHANGED <<builders, built, urlconf, offUrl>>

\* rb.ANY(path, handler, name) on the b-th builder; only pkg/router gives
\* the route a default name
ANY(b, path, name, handler) ==
    LET rb == builders[b]
        key == IF urlconf.variant = "router" THEN DefaultName(AnyMethod, path, name)
               ELSE name
        full == joinPaths(rb.prefix, path)
        bad == {k \in DOMAIN anyMethods : GinPanics(ginRoutes, anyMethods[k], full)}
        panics == bad # {}
        done == IF panics THEN (CHOOSE k \in bad : \A j \in bad : k <= j) - 1
                ELSE Len(anyMethods)
        recorded == IF urlconf.variant = "router" THEN fullPath(rb, path)
                    ELSE mwFullPath(rb, path, urlconf.handlers)
    IN  /\ reg.n < MaxRegs
        /\ reg' = [n |-> reg.n + 1, builder |-> b, method |-> AnyMethod, path |-> path,
                   name |-> name, handler |-> handler, panicked |-> panics]
        /\ ginRoutes' = ginRoutes \cup {<<anyMethods[k], full>> : k \in 1..done}
        /\ routes' = IF panics THEN routes
                      ELSE Record(routes, key, recorded, AnyMethod, handler)
        /\ UNCHANGED <<builders, built, urlconf, offUrl>>

\* BuildUrl(name, params)
BuildUrlCall(name, params) ==
    LET out == IF urlconf.variant = "router" THEN BuildUrl(routes, name, params)
               ELSE mwBuildUrl(routes, name, params)
    IN  /\ built' = [n |-> IF built.n = 0 THEN 1 ELSE built.n, name |-> name,
                     params |-> params, known |-> routes[name] # NoRoute,
                     template |-> routes[name].Path,
                     failed |-> out.failed, notFound |-> out.notFound, path |-> out.path]
        /\ UNCHANGED <<routes, builders, ginRoutes, urlconf, reg, offUrl>>

NextUrl ==
    \/ \E b \in 1..Len(builders), path \in GroupPaths : NewGroup(b, path)
    \/ \E b \in 1..Len(builders), path \in RoutePaths, name \in RouteNames,
          handler \in RouteHandlers : registerRoute(b, GET, path, name, handler)
    \/ \E b \in 1..Len(builders), path \in RoutePaths, name \in RouteNames,
          handler \in RouteHandlers : ANY(b, path, name, handler)
    \/ \E name \in BuildNames, params \in ParamLists : BuildUrlCall(name, params)

SpecUrl == InitUrl /\ [][NextUrl]_vars
\* whether params supplies a value for key
Supplied(params, key) == \E n \in DOMAIN params : params[n][1] = key

\* the value params supplies for key
Supply(params, key) == params[CHOOSE n \in DOMAIN params : params[n][1] = key][2]

\* path with every ":key" segment whose key params supplies replaced by the
\* text of the value supplied for that key
Expected(path, params) ==
    LET parts == Split(path)
    IN  JoinSlash([n \in DOMAIN parts |->
                     IF IsWildcard(parts[n]) /\ Supplied(params, Tail(parts[n]))
                     THEN Sprint(Supply(params, Tail(parts[n])))
                     ELSE parts[n]])

\* C4: when BuildUrl returns a path for a registered route whose recorded
\* path is P, the path is P with each ":key" placeholder replaced by the
\* stringified value params supplies for that same key.
C4_BuildUrlSubstitutes ==
    (built.n > 0 /\ ~built.failed) =>
        built.path = Expected(built.template, built.params)

\* "/user/:id" built with {id: 42}
C4_Example ==
    /\ built.n > 0 /\ ~built.failed
    /\ built.template = <<"/", "u", "s", "e", "r", "/", ":", "i", "d">>
    /\ built.params = <<<<<<"i", "d">>, IntValue(42)>>>>
    /\ built.path = <<"/", "u", "s", "e", "r", "/", "4", "2">>

(***************************************************************************)
(* The gzip middleware and its response writer                             *)
(* (pkg/middleware/ratelimit.go, lines 324-674).                           *)
(***************************************************************************)

\* strings.HasPrefix(s, prefix)
HasPrefix(s, prefix) == Len(s) >= Len(prefix) /\ SubSeq(s, 1, Len(prefix)) = prefix

\* strings.HasSuffix(s, suffix)
HasSuffix(s, suffix) ==
    Len(s) >= Len(suffix) /\ SubSeq(s, Len(s) - Len(suffix) + 1, Len(s)) = suffix

Upper == <<"A", "B", "C", "D", "E", "F", "G", "H", "I", "J", "K", "L", "M",
           "N", "O", "P", "Q", "R", "S", "T", "U", "V", "W", "X", "Y", "Z">>

LowerOf == <<"a", "b", "c", "d", "e", "f", "g", "h", "i", "j", "k", "l", "m",
             "n", "o", "p", "q", "r", "s", "t", "u", "v", "w", "x", "y", "z">>

\* strings.ToLower(s)
ToLower(s) ==
    [n \in DOMAIN s |->
        IF \E k \in DOMAIN Upper : Upper[k] = s[n]
        THEN LowerOf[CHOOSE k \in DOMAIN Upper : Upper[k] = s[n]]
        ELSE s[n]]

\* strings.TrimSpace(s)
RECURSIVE TrimSpace(_)
TrimSpace(s) ==
    IF s = <<>> THEN s
    ELSE IF s[1] = " " THEN TrimSpace(Tail(s))
    ELSE IF s[Len(s)] = " " THEN TrimSpace(SubSeq(s, 1, Len(s) - 1))
    ELSE s

\* strings.Split(contentType, ";")[0]
BeforeSemicolon(s) == SubSeq(s, 1, FirstIn(s, 1, {";"}) - 1)

compressibleTypes ==
    <<<<"t", "e", "x", "t", "/">>, <<"a", "p", "p", "l", "i", "c", "a", "t", "i", "o", "n", "/", "j", "s", "o", "n">>, <<"a", "p", "p", "l", "i", "c", "a", "t", "i", "o", "n", "/", "j", "a", "v", "a", "s", "c", "r", "i", "p", "t">>,
      <<"a", "p", "p", "l", "i", "c", "a", "t", "i", "o", "n", "/", "x", "m", "l">>, <<"a", "p", "p", "l", "i", "c", "a", "t", "i", "o", "n", "/", "x", "-", "j", "a", "v", "a", "s", "c", "r", "i", "p", "t">>, <<"a", "p", "p", "l", "i", "c", "a", "t", "i", "o", "n", "/", "x", "h", "t", "m", "l", "+", "x", "m", "l">>,
      <<"a", "p", "p", "l", "i", "c", "a", "t", "i", "o", "n", "/", "r", "s", "s", "+", "x", "m", "l">>, <<"a", "p", "p", "l", "i", "c", "a", "t", "i", "o", "n", "/", "a", "t", "o", "m", "+", "x", "m", "l">>, <<"a", "p", "p", "l", "i", "c", "a", "t", "i", "o", "n", "/", "x", "-", "f", "o", "n", "t", "-", "t", "t", "f">>,
      <<"a", "p", "p", "l", "i", "c", "a", "t", "i", "o", "n", "/", "x", "-", "f", "o", "n", "t", "-", "o", "p", "e", "n", "t", "y", "p", "e">>, <<"a", "p", "p", "l", "i", "c", "a", "t", "i", "o", "n", "/", "v", "n", "d", ".", "m", "s", "-", "f", "o", "n", "t", "o", "b", "j", "e", "c", "t">>,
      <<"i", "m", "a", "g", "e", "/", "s", "v", "g", "+", "x", "m", "l">>, <<"f", "o", "n", "t", "/">>>>

compressedTypes ==
    <<<<"i", "m", "a", "g", "e", "/", "p", "n", "g">>, <<"i", "m", "a", "g", "e", "/", "j", "p", "e", "g">>, <<"i", "m", "a", "g", "e", "/", "j", "p", "g">>, <<"i", "m", "a", "g", "e", "/", "g", "i", "f">>, <<"i", "m", "a", "g", "e", "/", "w", "e", "b", "p">>,
      <<"v", "i", "d", "e", "o", "/">>, <<"a", "u", "d", "i", "o", "/">>, <<"a", "p", "p", "l", "i", "c", "a", "t", "i", "o", "n", "/", "z", "i", "p">>, <<"a", "p", "p", "l", "i", "c", "a", "t", "i", "o", "n", "/", "g", "z", "i", "p">>,
      <<"a", "p", "p", "l", "i", "c", "a", "t", "i", "o", "n", "/", "x", "-", "g", "z", "i", "p">>, <<"a", "p", "p", "l", "i", "c", "a", "t", "i", "o", "n", "/", "x", "-", "r", "a", "r">>, <<"a", "p", "p", "l", "i", "c", "a", "t", "i", "o", "n", "/", "x", "-", "r", "a", "r", "-", "c", "o", "m", "p", "r", "e", "s", "s", "e", "d">>,
      <<"a", "p", "p", "l", "i", "c", "a", "t", "i", "o", "n", "/", "x", "-", "7", "z", "-", "c", "o", "m", "p", "r", "e", "s", "s", "e", "d">>, <<"a", "p", "p", "l", "i", "c", "a", "t", "i", "o", "n", "/", "o", "c", "t", "e", "t", "-", "s", "t", "r", "e", "a", "m">>, <<"a", "p", "p", "l", "i", "c", "a", "t", "i", "o", "n", "/", "p", "d", "f">>>>

\* shouldCompress(contentType)
shouldCompress(contentType) ==
    IF contentType = <<>> THEN TRUE
    ELSE LET ct == ToLower(TrimSpace(BeforeSemicolon(contentType)))
         IN  IF \E n \in DOMAIN compressibleTypes : HasPrefix(ct, compressibleTypes[n])
             THEN TRUE
             ELSE IF \E n \in DOMAIN compressedTypes : HasPrefix(ct, compressedTypes[n])
             THEN FALSE
             ELSE FALSE

DefaultMinLength == 1024

DefaultCompression == -1

HuffmanOnly == -2

BestCompression == 9

StatusOK == 200

StatusNoContent == 204

StatusNotModified == 304

DefaultGzipConfig ==
    [Level |-> DefaultCompression,
     MinLength |-> DefaultMinLength,
     ExcludedExtensions |->
        <<<<".", "p", "n", "g">>, <<".", "j", "p", "g">>, <<".", "j", "p", "e", "g">>, <<".", "g", "i", "f">>, <<".", "w", "e", "b", "p">>, <<".", "i", "c", "o">>,
          <<".", "m", "p", "4">>, <<".", "m", "p", "3">>, <<".", "a", "v", "i">>, <<".", "m", "o", "v">>,
          <<".", "z", "i", "p">>, <<".", "t", "a", "r">>, <<".", "g", "z">>, <<".", "r", "a", "r">>, <<".", "7", "z">>,
          <<".", "p", "d", "f">>, <<".", "d", "o", "c">>, <<".", "d", "o", "c", "x">>, <<".", "x", "l", "s">>, <<".", "x", "l", "s", "x">>>>,
     ExcludedPaths |-> <<>>,
     ExcludedPathPrefixes |-> <<>>]

\* the checks GzipWithConfig makes of its configuration
GzipWithConfig(config) ==
    LET c1 == IF config.Level < HuffmanOnly \/ config.Level > BestCompression
              THEN [config EXCEPT !.Level = DefaultCompression] ELSE config
    IN  IF c1.MinLength < 0 THEN [c1 EXCEPT !.MinLength = DefaultMinLength] ELSE c1

\* isWebSocketRequest
isWebSocketRequest(r) == r.Upgrade = "websocket"

\* shouldSkipRequest
shouldSkipRequest(r, config) ==
    \/ r.Method = "HEAD" \/ r.Method = "OPTIONS"
    \/ isWebSocketRequest(r)
    \/ \E n \in DOMAIN config.ExcludedPaths : r.Path = config.ExcludedPaths[n]
    \/ \E n \in DOMAIN config.ExcludedPathPrefixes :
           HasPrefix(r.Path, config.ExcludedPathPrefixes[n])
    \/ \E n \in DOMAIN config.ExcludedExtensions :
           HasSuffix(r.Path, config.ExcludedExtensions[n])

\* clientAcceptsGzip
clientAcceptsGzip(r) == Contains(r.AcceptEncoding, <<"g", "z", "i", "p">>)

\* the response header map: "" (the empty sequence) for a header not set
NoHeader == [ContentType |-> <<>>, ContentLength |-> <<>>, ContentEncoding |-> <<>>,
             Vary |-> <<>>]

\* gin's responseWriter under the gzip writer: the status it holds, whether
\* the head of the response has gone out and with which headers, and the
\* chunks of body handed to it
NewResponse == [status |-> StatusOK, wrote |-> FALSE, sentStatus |-> 0,
                sent |-> NoHeader, body |-> <<>>]

\* gin: responseWriter.WriteHeader
ginWriteHeader(w, code) ==
    IF code > 0 /\ w.status # code /\ ~w.wrote THEN [w EXCEPT !.status = code] ELSE w

\* gin: responseWriter.WriteHeaderNow, with the header map as it is now
ginWriteHeaderNow(w, h) ==
    IF ~w.wrote THEN [w EXCEPT !.wrote = TRUE, !.sentStatus = w.status, !.sent = h]
    ELSE w

\* gin: responseWriter.Write
ginWrite(w, h, chunk) ==
    [ginWriteHeaderNow(w, h) EXCEPT !.body = Append(@, chunk)]

\* http.DetectContentType for the bodies written
DetectContentType(data) ==
    IF data = "png" THEN <<"i", "m", "a", "g", "e", "/", "p", "n", "g">> ELSE <<"t", "e", "x", "t", "/", "p", "l", "a", "i", "n", ";", " ", "c", "h", "a", "r", "s", "e", "t", "=", "u", "t", "f", "-", "8">>

\* len(data) for the bodies written
DataLen(data) == IF data = "png" THEN 8 ELSE 2

\* compress/gzip: NewWriterLevel returns an error and a nil writer for a
\* level outside HuffmanOnly..BestCompression
NewWriterLevelFails(level) == level < HuffmanOnly \/ level > BestCompression

\* gzipWriterPool.New; writer is "gzip" for a compressor and "nil" for none
NewGzipWriter == [writer |-> "gzip", minLength |-> DefaultMinLength, written |-> FALSE,
                  size |-> 0, shouldCompr |-> FALSE, compressing |-> FALSE,
                  closed |-> FALSE]

\* getGzipWriter: the writer the pool gave, reset; the error of
\* gzip.NewWriterLevel is dropped and its writer kept
getGzipWriter(gw, level, minLength) ==
    [gw EXCEPT !.writer = IF level # DefaultCompression
                          THEN (IF NewWriterLevelFails(level) THEN "nil" ELSE "gzip")
                          ELSE @,
               !.minLength = minLength, !.written = FALSE, !.size = 0,
               !.shouldCompr = FALSE, !.compressing = FALSE, !.closed = FALSE]

\* gzipWriter.WriteHeader: the writer, the header map and gin's writer after
gzWriteHeader(g, h, w, code) ==
    LET first == ~g.written
        compr == first /\ shouldCompress(h.ContentType)
                   /\ code # StatusNoContent /\ code # StatusNotModified
        g1 == IF first
              THEN [g EXCEPT !.written = TRUE,
                             !.shouldCompr = shouldCompress(h.ContentType),
                             !.compressing = compr]
              ELSE g
        h1 == IF compr
              THEN [h EXCEPT !.ContentLength = <<>>, !.ContentEncoding = <<"g", "z", "i", "p">>,
                             !.Vary = Append(@, <<"A", "c", "c", "e", "p", "t", "-", "E", "n", "c", "o", "d", "i", "n", "g">>)]
              ELSE h
        nobody == code = StatusNoContent \/ code = StatusNotModified
    IN  [g |-> IF nobody THEN [g1 EXCEPT !.compressing = FALSE] ELSE g1,
         h |-> IF nobody THEN [h1 EXCEPT !.ContentEncoding = <<>>] ELSE h1,
         rw |-> ginWriteHeader(w, code)]

\* gzipWriter.Write
gzWrite(g, h, w, data) ==
    LET g0 == [g EXCEPT !.size = @ + DataLen(data)]
        h0 == IF ~g.written /\ h.ContentType = <<>>
              THEN [h EXCEPT !.ContentType = DetectContentType(data)] ELSE h
        s == IF ~g.written THEN gzWriteHeader(g0, h0, w, StatusOK)
             ELSE [g |-> g0, h |-> h0, rw |-> w]
    IN  IF s.g.compressing /\ s.g.writer = "nil"
        THEN s    \* g.writer.Write on a nil compressor panics, nothing is written
        ELSE [s EXCEPT !.rw = ginWrite(s.rw, s.h,
                                       [enc |-> IF s.g.compressing THEN "gzip" ELSE "raw",
                                        data |-> data])]

\* putGzipWriter: gz.writer.Close() writes the end of the gzip stream
putGzipWriter(g, h, w) ==
    IF g.writer # "nil" /\ g.compressing
    THEN [g |-> [g EXCEPT !.closed = TRUE],
          rw |-> ginWrite(w, h, [enc |-> "gzip", data |-> "end"])]
    ELSE [g |-> g, rw |-> w]
\* the older middleware (ratelimit.go 130-322): the content types its
\* shouldCompress refuses, by prefix
oldCompressedTypes ==
    <<<<"i", "m", "a", "g", "e", "/">>, <<"v", "i", "d", "e", "o", "/">>, <<"a", "u", "d", "i", "o", "/">>, <<"a", "p", "p", "l", "i", "c", "a", "t", "i", "o", "n", "/", "z", "i", "p">>, <<"a", "p", "p", "l", "i", "c", "a", "t", "i", "o", "n", "/", "x", "-", "g", "z", "i", "p">>,
      <<"a", "p", "p", "l", "i", "c", "a", "t", "i", "o", "n", "/", "x", "-", "r", "a", "r", "-", "c", "o", "m", "p", "r", "e", "s", "s", "e", "d">>, <<"a", "p", "p", "l", "i", "c", "a", "t", "i", "o", "n", "/", "o", "c", "t", "e", "t", "-", "s", "t", "r", "e", "a", "m">>>>

\* the older middleware: shouldCompress(contentType)
oldShouldCompress(contentType) ==
    IF contentType = <<>> THEN TRUE
    ELSE LET ct == ToLower(TrimSpace(BeforeSemicolon(contentType)))
         IN  ~\E n \in DOMAIN oldCompressedTypes : HasPrefix(ct, oldCompressedTypes[n])

\* the older middleware: gzipWriterPool.New
oldNewGzipWriter == [writer |-> "gzip", status |-> 0, closed |-> FALSE]

\* c.Error(err) with the error dropped
ErrorDropped(errs) == errs

\* gin: c.Error(err) appends to c.Errors; errs is the number of errors held
Error(errs) == errs + 1

\* the older middleware: what the handler of GzipWithLevelMiddleware(level)
\* does once c.Next() has returned, its deferred calls included (the
\* compressor is closed first, then the writer goes back to the pool)
GzipWithLevelMiddleware(level, r, run, g, pool, h, w) ==
    LET skip == \/ w.status = StatusNotModified
                \/ w.wrote
                \/ r.Method = "HEAD"
                \/ ~clientAcceptsGzip(r)
                \/ ~oldShouldCompress(h.ContentType)
        gz == IF pool = <<>> THEN oldNewGzipWriter ELSE Head(pool)
        rest == IF pool = <<>> THEN <<>> ELSE Tail(pool)
        h1 == [h EXCEPT !.ContentLength = <<>>, !.ContentEncoding = <<"g", "z", "i", "p">>,
                        !.Vary = <<<<"A", "c", "c", "e", "p", "t", "-", "E", "n", "c", "o", "d", "i", "n", "g">>>>]
        g1 == [gz EXCEPT !.writer = "gzip", !.status = w.status, !.closed = TRUE]
    IN  IF skip THEN [run |-> run, g |-> g, pool |-> pool, h |-> h, rw |-> w]
        ELSE IF NewWriterLevelFails(level)
        THEN [run |-> [run EXCEPT !.ctorFailed = TRUE, !.errors = Error(@)],
              g |-> gz, pool |-> Append(rest, gz), h |-> h, rw |-> w]
        ELSE [run |-> [run EXCEPT !.wrapped = TRUE],
              g |-> g1, pool |-> Append(rest, g1), h |-> h1,
              rw |-> ginWrite(w, h1, [enc |-> "gzip", data |-> "end"])]

StatusInternalServerError == 500

MaxOps == 3

\* the values of cfg.Gzip.Level tried: a valid level other than the default
\* and an invalid one, which GzipWithConfig turns into the default
Levels == {BestCompression, BestCompression + 1}

\* the requests tried
GzipRequests ==
    {[Method |-> "GET", Path |-> <<"/", "a", "p", "i", "/", "d", "a", "t", "a">>, AcceptEncoding |-> <<"g", "z", "i", "p", ",", " ", "d", "e", "f", "l", "a", "t", "e">>,
      Upgrade |-> ""],
     [Method |-> "GET", Path |-> <<"/", "a", "p", "i", "/", "d", "a", "t", "a">>, AcceptEncoding |-> <<"b", "r">>,
      Upgrade |-> ""],
     [Method |-> "HEAD", Path |-> <<"/", "a", "p", "i", "/", "d", "a", "t", "a">>, AcceptEncoding |-> <<"g", "z", "i", "p", ",", " ", "d", "e", "f", "l", "a", "t", "e">>,
      Upgrade |-> ""],
     [Method |-> "GET", Path |-> <<"/", "l", "o", "g", "o", ".", "p", "n", "g">>, AcceptEncoding |-> <<"g", "z", "i", "p", ",", " ", "d", "e", "f", "l", "a", "t", "e">>,
      Upgrade |-> ""],
     [Method |-> "GET", Path |-> <<"/", "a", "p", "i", "/", "d", "a", "t", "a">>, AcceptEncoding |-> <<"g", "z", "i", "p", ",", " ", "d", "e", "f", "l", "a", "t", "e">>,
      Upgrade |-> "websocket"]}

\* what the handlers tried do with the response
ContentTypes == {<<"i", "m", "a", "g", "e", "/", "p", "n", "g">>, <<"a", "p", "p", "l", "i", "c", "a", "t", "i", "o", "n", "/", "j", "s", "o", "n">>}

ContentLengths == {8}

StatusCodes == {StatusOK, StatusNoContent, StatusNotModified}

Bodies == {"png", "json"}

NoRequest == [Method |-> "", Path |-> <<>>, AcceptEncoding |-> <<>>, Upgrade |-> ""]

\* no request has met the gzip middleware yet
InitGzip ==
    /\ IdleLimiter /\ IdleIP /\ IdleRoute /\ IdleUrl /\ IdleFlash /\ IdleUser /\ IdleSession /\ IdleTemplate /\ IdleRecover /\ IdleBus
    /\ gzreq = NoRequest
    /\ header = NoHeader
    /\ rw = NewResponse
    /\ gzpool = <<>>
    /\ \E variant \in {"config", "level"}, level \in Levels :
          /\ gzw = IF variant = "config" THEN NewGzipWriter ELSE oldNewGzipWriter
          /\ gzrun = [variant |-> variant, level |-> level, phase |-> "idle",
                      wrapped |-> FALSE, ops |-> 0, ctorFailed |-> FALSE, errors |-> 0,
                      panicked |-> FALSE]

\* a request arrives: the handler of GzipWithConfig up to its c.Next(); the
\* older middleware calls c.Next() first
GzipStart(r) ==
    LET config == GzipWithConfig([DefaultGzipConfig EXCEPT !.Level = gzrun.level])
        wrap == /\ gzrun.variant = "config"
                /\ ~shouldSkipRequest(r, config) /\ clientAcceptsGzip(r)
    IN  /\ gzrun.phase \in {"idle", "done"}
        /\ gzreq' = r
        /\ header' = NoHeader
        /\ rw' = NewResponse
        /\ gzrun' = [gzrun EXCEPT !.phase = "handler", !.wrapped = wrap, !.ops = 0,
                                  !.ctorFailed = /\ wrap
                                                 /\ config.Level # DefaultCompression
                                                 /\ NewWriterLevelFails(config.Level),
                                  !.errors = 0, !.panicked = FALSE]
        /\ IF wrap
           THEN /\ gzw' = getGzipWriter(IF gzpool = <<>> THEN NewGzipWriter
                                        ELSE Head(gzpool), config.Level, config.MinLength)
                /\ gzpool' = IF gzpool = <<>> THEN <<>> ELSE Tail(gzpool)
           ELSE UNCHANGED <<gzw, gzpool>>
        /\ UNCHANGED offGzip

\* the handler: c.Header("Content-Type", contentType)
SetContentType(contentType) ==
    /\ gzrun.phase = "handler" /\ gzrun.ops < MaxOps
    /\ header' = [header EXCEPT !.ContentType = contentType]
    /\ gzrun' = [gzrun EXCEPT !.ops = @ + 1]
    /\ UNCHANGED <<gzreq, gzw, rw, gzpool, offGzip>>

\* the handler: c.Header("Content-Length", n)
SetContentLength(n) ==
    /\ gzrun.phase = "handler" /\ gzrun.ops < MaxOps
    /\ header' = [header EXCEPT !.ContentLength = FormatUint(n)]
    /\ gzrun' = [gzrun EXCEPT !.ops = @ + 1]
    /\ UNCHANGED <<gzreq, gzw, rw, gzpool, offGzip>>

\* the handler: c.Writer.WriteHeader(code), as c.Status(code) does
WriteHeader(code) ==
    /\ gzrun.phase = "handler" /\ gzrun.ops < MaxOps
    /\ gzrun' = [gzrun EXCEPT !.ops = @ + 1]
    /\ IF gzrun.wrapped
       THEN LET s == gzWriteHeader(gzw, header, rw, code)
            IN  gzw' = s.g /\ header' = s.h /\ rw' = s.rw
       ELSE rw' = ginWriteHeader(rw, code) /\ UNCHANGED <<gzw, header>>
    /\ UNCHANGED <<gzreq, gzpool, offGzip>>

\* the handler: c.Writer.Write(data)
Write(data) ==
    /\ gzrun.phase = "handler" /\ gzrun.ops < MaxOps
    /\ gzrun' = [gzrun EXCEPT !.ops = @ + 1]
    /\ IF gzrun.wrapped
       THEN LET s == gzWrite(gzw, header, rw, data)
            IN  gzw' = s.g /\ header' = s.h /\ rw' = s.rw
       ELSE /\ rw' = ginWrite(rw, header, [enc |-> "raw", data |-> data])
            /\ UNCHANGED <<gzw, header>>
    /\ UNCHANGED <<gzreq, gzpool, offGzip>>

\* the handler returns: the rest of the handler of GzipWithConfig, then the
\* engine's WriteHeaderNow
GzipFinish ==
    /\ gzrun.phase = "handler"
    /\ IF gzrun.variant = "level"
       THEN LET s == GzipWithLevelMiddleware(gzrun.level, gzreq, gzrun, gzw, gzpool,
                                            header, rw)
            IN  /\ gzrun' = [s.run EXCEPT !.phase = "done"]
                /\ gzw' = s.g
                /\ gzpool' = s.pool
                /\ header' = s.h
                /\ rw' = ginWriteHeaderNow(s.rw, s.h)
       ELSE /\ gzrun' = [gzrun EXCEPT !.phase = "done"]
            /\ header' = header
            /\ IF gzrun.wrapped
               THEN LET p == putGzipWriter(gzw, header, rw)
                    IN  /\ gzpool' = Append(gzpool, p.g)
                        /\ gzw' = p.g
                        /\ rw' = ginWriteHeaderNow(p.rw, header)
               ELSE /\ rw' = ginWriteHeaderNow(rw, header)
                    /\ UNCHANGED <<gzw, gzpool>>
    /\ UNCHANGED <<gzreq, offGzip>>

\* the handler panics. Neither middleware has a deferred call pending while
\* c.Next() runs, so the panic unwinds to RecoveryMiddleware, registered
\* before the gzip middleware, which answers through c.Writer as it is then:
\* response.Fail is gin's c.JSON(500, resp), whose Render calls WriteHeader,
\* sets the Content-Type if none is set and writes the body; the engine's
\* WriteHeaderNow follows
HandlerPanic ==
    /\ gzrun.phase = "handler"
    /\ gzrun' = [gzrun EXCEPT !.phase = "done", !.panicked = TRUE]
    /\ IF gzrun.wrapped
       THEN LET a == gzWriteHeader(gzw, header, rw, StatusInternalServerError)
                h1 == IF a.h.ContentType = <<>>
                      THEN [a.h EXCEPT !.ContentType = <<"a", "p", "p", "l", "i", "c", "a", "t", "i", "o", "n", "/", "j", "s", "o", "n", ";", " ", "c", "h", "a", "r", "s", "e", "t", "=", "u", "t", "f", "-", "8">>]
                      ELSE a.h
                b == gzWrite(a.g, h1, a.rw, "json")
            IN  /\ gzw' = b.g
                /\ header' = b.h
                /\ rw' = ginWriteHeaderNow(b.rw, b.h)
       ELSE LET h1 == IF header.ContentType = <<>>
                      THEN [header EXCEPT !.ContentType = <<"a", "p", "p", "l", "i", "c", "a", "t", "i", "o", "n", "/", "j", "s", "o", "n", ";", " ", "c", "h", "a", "r", "s", "e", "t", "=", "u", "t", "f", "-", "8">>]
                      ELSE header
            IN  /\ header' = h1
                /\ rw' = ginWrite(ginWriteHeader(rw, StatusInternalServerError), h1,
                                  [enc |-> "raw", data |-> "json"])
                /\ gzw' = gzw
    /\ UNCHANGED <<gzreq, gzpool, offGzip>>

NextGzip ==
    \/ \E r \in GzipRequests : GzipStart(r)
    \/ \E contentType \in ContentTypes : SetContentType(contentType)
    \/ \E n \in ContentLengths : SetContentLength(n)
    \/ \E code \in StatusCodes : WriteHeader(code)
    \/ \E data \in Bodies : Write(data)
    \/ GzipFinish
    \/ HandlerPanic

SpecGzip == InitGzip /\ [][NextGzip]_vars

\* the media type of a Content-Type header, without its parameters
MediaType(contentType) == ToLower(TrimSpace(BeforeSemicolon(contentType)))

\* some chunk of the body went through the compressor
Compressed(w) == \E n \in DOMAIN w.body : w.body[n].enc = "gzip"

\* C5: a response sent with Content-Type image/png has no chunk of its body
\* gzip-compressed and no Content-Encoding gzip, whatever the request's
\* Accept-Encoding.
C5_PngNeverCompressed ==
    (rw.wrote /\ MediaType(rw.sent.ContentType) = <<"i", "m", "a", "g", "e", "/", "p", "n", "g">>) =>
        ~Compressed(rw) /\ rw.sent.ContentEncoding # <<"g", "z", "i", "p">>

\* C6: a response with Content-Type application/json whose handler wrote a
\* body, served to a request the middleware does not skip and whose
\* Accept-Encoding has gzip, has every chunk of its body gzip-compressed and
\* is sent with Content-Encoding gzip and no Content-Length.
C6_JsonCompressed ==
    (/\ gzrun.phase = "done" /\ gzrun.wrapped
     /\ MediaType(rw.sent.ContentType) = <<"a", "p", "p", "l", "i", "c", "a", "t", "i", "o", "n", "/", "j", "s", "o", "n">>
     /\ rw.sentStatus \notin {StatusNoContent, StatusNotModified}
     /\ \E n \in DOMAIN rw.body : rw.body[n].data # "end") =>
        /\ \A n \in DOMAIN rw.body : rw.body[n].enc = "gzip"
        /\ rw.sent.ContentEncoding = <<"g", "z", "i", "p">>
        /\ rw.sent.ContentLength = <<>>

(***************************************************************************)
(* Flash messages of the session helpers (pkg/session/session.go and the   *)
(* same functions in pkg/middleware/session.go).                           *)
(***************************************************************************)

FlashKeys == {"k1", "k2"}

FlashValues == {"v1", "v2"}

MaxFlashes == 2

Nil == "nil"

\* session.AddFlash(value, key): append to the slice held under key
AddFlash(values, key, value) == [values EXCEPT ![key] = Append(@, value)]

\* session.Flashes(key): the slice held under key, which is deleted
Flashes(values, key) == [flashes |-> values[key], values |-> [values EXCEPT ![key] = <<>>]]

\* session.Save(): the store is written when the session was written, and
\* the write may fail
Save(s, st, saved) ==
    IF s.written
    THEN IF saved THEN [session |-> [s EXCEPT !.written = FALSE], store |-> s.values,
                        err |-> FALSE]
         ELSE [session |-> s, store |-> st, err |-> TRUE]
    ELSE [session |-> s, store |-> st, err |-> FALSE]

NoCall == [op |-> "", key |-> "", value |-> Nil, err |-> FALSE]

InitFlash ==
    /\ IdleLimiter /\ IdleIP /\ IdleRoute /\ IdleUrl /\ IdleGzip /\ IdleUser /\ IdleSession /\ IdleTemplate /\ IdleRecover /\ IdleBus
    /\ session = [values |-> [k \in FlashKeys |-> <<>>], written |-> FALSE]
    /\ store = [k \in FlashKeys |-> <<>>]
    /\ flash = <<NoCall, NoCall>>

\* SetFlash(c, key, value)
SetFlash(key, value, saved) ==
    LET s1 == [values |-> AddFlash(session.values, key, value), written |-> TRUE]
        r == Save(s1, store, saved)
    IN  /\ Len(session.values[key]) < MaxFlashes
        /\ session' = r.session
        /\ store' = r.store
        /\ flash' = <<flash[2], [op |-> "SetFlash", key |-> key, value |-> value,
                                 err |-> r.err]>>
        /\ UNCHANGED offFlash

\* GetFlash(c, key)
GetFlash(key, saved) ==
    LET f == Flashes(session.values, key)
        r == Save([values |-> f.values, written |-> TRUE], store, saved)
    IN  /\ session' = r.session
        /\ store' = r.store
        /\ flash' = <<flash[2],
                      [op |-> "GetFlash", key |-> key,
                       value |-> IF ~r.err /\ Len(f.flashes) > 0 THEN f.flashes[1]
                                 ELSE Nil,
                       err |-> r.err]>>
        /\ UNCHANGED offFlash

\* Clear(c)
Clear(saved) ==
    LET r == Save([values |-> [k \in FlashKeys |-> <<>>], written |-> TRUE], store, saved)
    IN  /\ session' = r.session
        /\ store' = r.store
        /\ flash' = <<NoCall, NoCall>>
        /\ UNCHANGED offFlash

\* the request ends and the next request of the same session begins: its
\* Values are those the store holds
NextRequest ==
    /\ session' = [values |-> store, written |-> FALSE]
    /\ session' # session
    /\ flash' = <<NoCall, NoCall>>
    /\ UNCHANGED <<store, offFlash>>

NextFlash ==
    \/ \E key \in FlashKeys, value \in FlashValues, saved \in BOOLEAN :
          SetFlash(key, value, saved)
    \/ \E key \in FlashKeys, saved \in BOOLEAN : GetFlash(key, saved)
    \/ \E saved \in BOOLEAN : Clear(saved)
    \/ NextRequest

SpecFlash == InitFlash /\ [][NextFlash]_vars

\* C7: within one session, when SetFlash(k, v) is followed by GetFlash(k),
\* neither failing, GetFlash returns v; and when GetFlash(k) is followed at
\* once by a second GetFlash(k), neither failing, the second returns nothing.
C7_FlashReadOnce ==
    LET first == flash[1]
        second == flash[2]
    IN  (second.op = "GetFlash" /\ first.key = second.key /\ ~first.err /\ ~second.err) =>
            /\ first.op = "SetFlash" => second.value = first.value
            /\ first.op = "GetFlash" => second.value = Nil

\* the second of two GetFlash of one key returns nothing, the first having
\* returned a value
C7_SecondReadEmpty ==
    /\ flash[1].op = "GetFlash" /\ flash[2].op = "GetFlash"
    /\ flash[1].key = flash[2].key /\ ~flash[1].err /\ ~flash[2].err
    /\ flash[1].value # Nil /\ flash[2].value = Nil

(***************************************************************************)
(* User registration (internal/service/user_service.go over                *)
(* internal/repository/user_repository.go and the users table).            *)
(***************************************************************************)

Callers == {1, 2}

Usernames == {"alice", "bob"}

Emails == {"a@x.io", "b@x.io"}

\* len(req.Password): bcrypt refuses a password of more than 72 bytes
PasswordLens == {8, 73}

BcryptMaxLen == 72

MaxUsers == 2

\* ExistsByUsername that never finds a row
ExistsByUsernameNever(rows, username) == FALSE

\* UserRepository.ExistsByUsername: count > 0
ExistsByUsername(rows, username) == \E u \in rows : u.Username = username

\* UserRepository.ExistsByEmail: count > 0
ExistsByEmail(rows, email) == \E u \in rows : u.Email = email

\* a users table without unique indexes
UniqueViolationNever(rows, username, email) == FALSE

\* the unique indexes of the users table refuse the row
UniqueViolation(rows, username, email) ==
    \E u \in rows : u.Username = username \/ u.Email = email

\* held: a row of the table had the call's username when the call began;
\* failed: the database answered one of the call's statements with an error
NoCallYet == [pc |-> "idle", Username |-> "", Email |-> "", PasswordLen |-> 0,
              code |-> 0, created |-> 0, held |-> FALSE, failed |-> FALSE]

InitUser ==
    /\ IdleLimiter /\ IdleIP /\ IdleRoute /\ IdleUrl /\ IdleGzip /\ IdleFlash /\ IdleSession /\ IdleTemplate /\ IdleRecover /\ IdleBus
    /\ users = {}
    /\ nextID = 1
    /\ calls = [p \in Callers |-> NoCallYet]

\* the call of caller p returns with code
Return(p, call, code) == [calls EXCEPT ![p] = [call EXCEPT !.pc = "done", !.code = code]]

\* Register up to the answer of ExistsByUsername; ok is whether the query
\* ran without error
RegisterCheckUsername(p, username, email, passwordLen, ok) ==
    LET call == [pc |-> "email", Username |-> username, Email |-> email,
                 PasswordLen |-> passwordLen, code |-> 0, created |-> 0,
                 held |-> \E u \in users : u.Username = username, failed |-> ~ok]
    IN  /\ calls[p].pc \in {"idle", "done"}
        /\ calls' = IF ~ok THEN Return(p, call, DatabaseError)
                    ELSE IF ExistsByUsername(users, username)
                    THEN Return(p, call, BadRequest)
                    ELSE [calls EXCEPT ![p] = call]
        /\ UNCHANGED <<users, nextID, offUser>>

\* Register from the answer of ExistsByEmail to the password's hash
RegisterCheckEmail(p, ok) ==
    LET call == calls[p]
    IN  /\ call.pc = "email"
        /\ calls' = IF ~ok THEN Return(p, [call EXCEPT !.failed = TRUE], DatabaseError)
                    ELSE IF ExistsByEmail(users, call.Email)
                    THEN Return(p, call, BadRequest)
                    ELSE IF call.PasswordLen > BcryptMaxLen
                    THEN Return(p, call, InternalServerError)
                    ELSE [calls EXCEPT ![p] = [call EXCEPT !.pc = "create"]]
        /\ UNCHANGED <<users, nextID, offUser>>

\* Register: repo.Create(user) and the return
RegisterCreate(p, ok) ==
    LET call == calls[p]
    IN  /\ call.pc = "create"
        /\ nextID <= MaxUsers
        /\ IF ~ok
           THEN /\ calls' = Return(p, [call EXCEPT !.failed = TRUE], DatabaseError)
                /\ UNCHANGED <<users, nextID>>
           ELSE IF UniqueViolation(users, call.Username, call.Email)
           THEN /\ calls' = Return(p, call, DatabaseError)
                /\ UNCHANGED <<users, nextID>>
           ELSE /\ users' = users \cup {[ID |-> nextID, Username |-> call.Username,
                                         Email |-> call.Email]}
                /\ nextID' = nextID + 1
                /\ calls' = Return(p, [call EXCEPT !.created = nextID], Success)
        /\ UNCHANGED offUser

\* DeleteUser(id)
DeleteUser(id) ==
    /\ \E u \in users : u.ID = id
    /\ users' = {u \in users : u.ID # id}
    /\ UNCHANGED <<nextID, calls, offUser>>

NextUser ==
    \/ \E p \in Callers, username \in Usernames, email \in Emails,
          passwordLen \in PasswordLens, ok \in BOOLEAN :
          RegisterCheckUsername(p, username, email, passwordLen, ok)
    \/ \E p \in Callers, ok \in BOOLEAN : RegisterCheckEmail(p, ok)
    \/ \E p \in Callers, ok \in BOOLEAN : RegisterCreate(p, ok)
    \/ \E id \in 1..MaxUsers : DeleteUser(id)

SpecUser == InitUser /\ [][NextUser]_vars

\* C8: a Register call whose username is held, when the call begins, by the
\* row of an earlier successful registration returns the bad-request error
\* (HTTP 400) and creates no row, the database answering its query.
C8_DuplicateUsernameRejected ==
    \A p \in Callers :
        (calls[p].pc # "idle" /\ calls[p].held /\ ~calls[p].failed) =>
            /\ calls[p].pc = "done"
            /\ calls[p].code = BadRequest /\ HTTPStatus(calls[p].code) = 400
            /\ calls[p].created = 0

\* a second registration of a username was refused while the row of the
\* first is in the table
C8_Witness ==
    \E p \in Callers, u \in users :
        /\ calls[p].pc = "done" /\ calls[p].held /\ ~calls[p].failed
        /\ calls[p].code = BadRequest /\ calls[p].Username = u.Username
        /\ u.ID # calls[p].created

\* C11: BuildUrl called with a name that is not in the route table fails with
\* the not-found failure (a panic in pkg/router, a returned error in package
\* middleware) and returns no path.
C11_UnknownNameFails ==
    (built.n > 0 /\ ~built.known) =>
        built.failed /\ built.notFound /\ built.path = <<>>

\* BuildUrl has been called with a name no registration has recorded, after
\* another name has been registered
C11_Witness ==
    /\ built.n > 0 /\ ~built.known /\ built.name = <<"n", "o", "p", "e">>
    /\ built.notFound /\ \E name \in TableNames : routes[name] # NoRoute

\* the keys of the ":key" segments of path that params supplies no value for
Unsupplied(path, params) ==
    LET parts == Split(path)
    IN  {Tail(parts[n]) : n \in {k \in DOMAIN parts :
                                    /\ parts[k] # <<>> /\ parts[k][1] = ":"
                                    /\ ~Supplied(params, Tail(parts[k]))}}

\* C12: in pkg/router, BuildUrl panics whenever a ":key" placeholder of the
\* recorded route path is left without a value by the supplied params, and
\* returns no path then.
C12_MissingParamPanics ==
    (built.n > 0 /\ urlconf.variant = "router" /\ built.known
       /\ Unsupplied(built.template, built.params) # {})
        => built.failed /\ built.path = <<>>

\* C13: a response sent with status 204 or 304 is never sent with
\* Content-Encoding gzip, whatever the request and the content type.
C13_NoBodyStatusNotCompressed ==
    (rw.wrote /\ rw.sentStatus \in {StatusNoContent, StatusNotModified}) =>
        rw.sent.ContentEncoding # <<"g", "z", "i", "p">>

\* C14: once a request whose writer the gzip middleware wrapped has been
\* answered, the compressor has been closed after the last chunk it was given
\* (the end of the gzip stream closes the body) and the wrapper is back in
\* the pool.
C14_ClosedAndPooled ==
    (gzrun.phase = "done" /\ gzrun.wrapped) =>
        /\ Compressed(rw) => gzw.closed /\ rw.body[Len(rw.body)].data = "end"
        /\ \E n \in DOMAIN gzpool : gzpool[n] = gzw

\* C15: a request for which gzip.NewWriterLevel failed ends with an error
\* held by the request's context and without Content-Encoding gzip on the
\* response.
C15_ConstructionFailureSurfaced ==
    (gzrun.phase = "done" /\ gzrun.ctorFailed) =>
        gzrun.errors > 0 /\ rw.sent.ContentEncoding # <<"g", "z", "i", "p">>

\* the older middleware, set up with a level gzip refuses, has served a
\* request whose handler set a compressible content type and wrote nothing
C15_Witness ==
    /\ gzrun.phase = "done" /\ gzrun.ctorFailed /\ gzrun.variant = "level"
    /\ NewWriterLevelFails(gzrun.level) /\ gzrun.errors = 1
    /\ header.ContentType = <<"a", "p", "p", "l", "i", "c", "a", "t", "i", "o", "n", "/", "j", "s", "o", "n">> /\ rw.wrote /\ rw.body = <<>>

\* C16: a registration that gin accepts, made under an explicit name, leaves
\* the route it registers as the table's entry for that name, whatever the
\* entry was before; the entry of a name changes in no other step; and a
\* registration is refused only when gin refuses its method and path, never
\* because its name is already in the table.
C16_LastWriteWins ==
    [][/\ (reg' # reg /\ ~reg'.panicked /\ reg'.name # <<>>) =>
             /\ routes'[reg'.name].Name = reg'.name
             /\ routes'[reg'.name].Method = reg'.method
             /\ routes'[reg'.name].Handler = reg'.handler
             /\ HasSuffix(routes'[reg'.name].Path, reg'.path)
       /\ \A name \in RouteNames \ {<<>>} :
             routes'[name] # routes[name] =>
                 reg'.n = reg.n + 1 /\ reg'.name = name /\ ~reg'.panicked
       /\ (reg' # reg /\ reg'.panicked) =>
             \E r \in ginRoutes :
                 LET full == joinPaths(builders[reg'.builder].prefix, reg'.path)
                 IN  r[2] = full \/ WildcardConflict(r[2], full)]_vars

\* two registrations of different paths were accepted under the same name,
\* and the table holds the second
C16_Witness ==
    /\ reg.n = 2 /\ ~reg.panicked /\ reg.name = <<"u", "s", "e", "r", "@", "g", "e", "t">>
    /\ Cardinality({r \in ginRoutes : r[1] = GET}) = 2
    /\ {name \in TableNames : routes[name] # NoRoute} = {<<"u", "s", "e", "r", "@", "g", "e", "t">>}
    /\ HasSuffix(routes[<<"u", "s", "e", "r", "@", "g", "e", "t">>].Path, reg.path)

\* C17: the path recorded for a route registered on a builder, grouped or
\* not, is the full path gin serves it under: the prefixes of the groups the
\* builder came from, followed by the route's own path.
C17_RecordedFullPath ==
    (reg.n > 0 /\ ~reg.panicked /\ reg.name # <<>>) =>
        routes[reg.name].Path = joinPaths(builders[reg.builder].prefix, reg.path)

\* a route has been registered on a builder made by Group("/api")
C17_GroupedRegistration ==
    /\ reg.n > 0 /\ ~reg.panicked /\ reg.name # <<>>
    /\ builders[reg.builder].group
    /\ builders[reg.builder].prefix = <<"/", "a", "p", "i">>
    /\ <<reg.method, <<"/", "a", "p", "i">> \o reg.path>> \in ginRoutes

(***************************************************************************)
(* The start of the session middleware: session.Start (pkg/session),       *)
(* SessionMiddleware (pkg/middleware/session.go) and the older             *)
(* SessionMiddleware() of the same file, which reads the global            *)
(* configuration.                                                          *)
(***************************************************************************)

\* parseSameSite: http.SameSiteLaxMode, ...StrictMode, ...NoneMode and
\* ...DefaultMode by name
parseSameSite(sameSite) ==
    CASE sameSite = <<"l", "a", "x">> -> "Lax"
      [] sameSite = <<"s", "t", "r", "i", "c", "t">> -> "Strict"
      [] sameSite = <<"n", "o", "n", "e">> -> "None"
      [] OTHER -> "Default"

\* the store the switch on sessionConfig.Store makes, "panic" when
\* redis.NewStore fails; cases is the stores the switch knows
NewStore(cfg, cases) ==
    IF cfg.Store \in cases
    THEN (IF cfg.Store = "redis" /\ ~cfg.redisUp THEN "panic" ELSE cfg.Store)
    ELSE "cookie"

\* sessions.Options{...} as the three functions fill it
Options(cfg, variant, kind, secure, sameSite) ==
    [set |-> TRUE, variant |-> variant, store |-> kind, MaxAge |-> cfg.MaxAge * 60,
     Secure |-> secure, HttpOnly |-> cfg.HttpOnly, SameSite |-> sameSite]

NoOptions == [set |-> FALSE, variant |-> "", store |-> "", MaxAge |-> 0, Secure |-> FALSE,
              HttpOnly |-> FALSE, SameSite |-> ""]

\* session.Start and SessionMiddleware(sessionConfig, redisConfig, logger):
\* the options given to the store
CheckedOptions(cfg, variant, kind) ==
    LET sameSite == parseSameSite(cfg.SameSite)
        secure == IF sameSite = "None" /\ ~cfg.Secure THEN TRUE ELSE cfg.Secure
    IN  Options(cfg, variant, kind, secure, sameSite)

\* the configurations tried
SameSites == {<<"l", "a", "x">>, <<"s", "t", "r", "i", "c", "t">>, <<"n", "o", "n", "e">>, <<>>, <<"N", "o", "n", "e">>}

Stores == {"cookie", "memory", "redis"}

MaxAges == {0, 30}

InitSession ==
    /\ IdleLimiter /\ IdleIP /\ IdleRoute /\ IdleUrl /\ IdleGzip /\ IdleFlash /\ IdleUser /\ IdleTemplate /\ IdleRecover /\ IdleBus
    /\ \E st \in Stores, sameSite \in SameSites, secure \in BOOLEAN, httpOnly \in BOOLEAN,
          maxAge \in MaxAges, up \in BOOLEAN :
          sescfg = [Store |-> st, SameSite |-> sameSite, Secure |-> secure,
                    HttpOnly |-> httpOnly, MaxAge |-> maxAge, redisUp |-> up]
    /\ options = NoOptions

\* pkg/session: Start(sessionConfig, redisConfig, dbConfig), with a database
\* configuration that is never asked for
Start ==
    LET kind == NewStore(sescfg, {"redis", "memory"})
    IN  /\ ~options.set /\ kind # "panic"
        /\ options' = CheckedOptions(sescfg, "session.Start", kind)
        /\ UNCHANGED <<sescfg, offSession>>

\* pkg/middleware: SessionMiddleware(sessionConfig, redisConfig, logger)
SessionMiddleware ==
    LET kind == NewStore(sescfg, {"redis"})
    IN  /\ ~options.set /\ kind # "panic"
        /\ options' = CheckedOptions(sescfg, "SessionMiddleware", kind)
        /\ UNCHANGED <<sescfg, offSession>>

\* pkg/middleware, the older SessionMiddleware()
oldSessionMiddleware ==
    LET kind == NewStore(sescfg, {"redis"})
    IN  /\ ~options.set /\ kind # "panic"
        /\ options' = Options(sescfg, "SessionMiddleware()", kind, sescfg.Secure,
                              parseSameSite(sescfg.SameSite))
        /\ UNCHANGED <<sescfg, offSession>>

NextSession == Start \/ SessionMiddleware \/ oldSessionMiddleware

SpecSession == InitSession /\ [][NextSession]_vars

\* C18: the options given to the session store never have SameSite None
\* with Secure false.
C18_SameSiteNoneSecure ==
    (options.set /\ options.SameSite = "None") => options.Secure

\* a configuration with same_site "none" and secure false has been given to
\* session.Start, which set Secure
C18_AutoCorrected ==
    /\ options.set /\ options.variant = "session.Start"
    /\ sescfg.SameSite = <<"n", "o", "n", "e">> /\ ~sescfg.Secure
    /\ options.SameSite = "None" /\ options.Secure

(***************************************************************************)
(* The template cache: TemplateManager.loadTemplate                        *)
(* (pkg/template/math_funcs.go) and the older package-level loadTemplate   *)
(* (pkg/template/tmpl.go).  A compiled template is known by the edition of *)
(* the files it was parsed from, 1 + the number of edits before, and by    *)
(* the list of names whose files were parsed into it (compiledFor).        *)
(***************************************************************************)

\* strings.Join(elems, sep)
RECURSIVE Join(_, _)
Join(elems, sep) ==
    IF elems = <<>> THEN <<>>
    ELSE IF Len(elems) = 1 THEN elems[1]
    ELSE elems[1] \o sep \o Join(Tail(elems), sep)

\* the template files on disk, by name
Files == {<<"a">>, <<"b">>, <<"a", ":", "b">>, <<"l", "a", "y", "o", "u", "t", "s", "/", "m", "a", "i", "n">>}

\* the lists of names loadTemplate is called with
NameLists == {<<<<"a">>>>, <<<<"l", "a", "y", "o", "u", "t", "s", "/", "m", "a", "i", "n">>, <<"a">>>>, <<<<"x">>>>, <<<<".", ".", "/", "a">>>>, <<<<>>>>, <<>>,
              <<<<"a">>, <<"b">>>>, <<<<"a", ":", "b">>>>}

CacheKey(names) == Join(names, <<":">>)

CacheKeys == {CacheKey(names) : names \in NameLists}

Renderers == {1, 2}

MaxEdits == 1

MaxLoads == 3

\* ValidateTemplateName
ValidateTemplateName(name) ==
    name # <<>> /\ ~Contains(name, <<"\\">>) /\ ~Contains(name, <<".", ".">>)

\* loadTemplate, the look-up that never finds the key
lookupMiss(t, key) == [found |-> FALSE, tmpl |-> 0]

\* loadTemplate: the look-up in the cache, made outside development mode
lookup(t, key) ==
    IF ~t.developmentMode /\ t.templates[key] # 0
    THEN [found |-> TRUE, tmpl |-> t.templates[key]]
    ELSE [found |-> FALSE, tmpl |-> 0]

\* loadTemplate from the check of names to ParseFiles: the template parsed
\* from the files as they are after d edits, or the error; the older
\* function validates nothing and indexes an empty list of files
parse(t, names, d) ==
    LET named == SelectSeq(names, LAMBDA name : name # <<>>)
    IN  IF Len(names) = 0 THEN [err |-> "no names", tmpl |-> 0]
        ELSE IF t.variant = "manager"
                  /\ \E n \in DOMAIN named : ~ValidateTemplateName(named[n])
        THEN [err |-> "invalid name", tmpl |-> 0]
        ELSE IF named = <<>>
        THEN [err |-> IF t.variant = "manager" THEN "no files" ELSE "panic", tmpl |-> 0]
        ELSE IF \E n \in DOMAIN named : named[n] \notin Files
        THEN [err |-> "parse", tmpl |-> 0]
        ELSE [err |-> "", tmpl |-> d + 1]

\* updateLoadStats; the older manager keeps no statistics
updateLoadStats(t, key) ==
    IF t.variant = "manager" THEN [t EXCEPT !.loadStats[key] = @ + 1] ELSE t

NoLoad == [pc |-> "idle", names |-> <<>>, found |-> FALSE, parsed |-> FALSE, err |-> "",
           tmpl |-> 0, from |-> <<>>]

InitTemplate ==
    /\ IdleLimiter /\ IdleIP /\ IdleRoute /\ IdleUrl /\ IdleGzip /\ IdleFlash /\ IdleUser /\ IdleSession /\ IdleRecover /\ IdleBus
    /\ \E variant \in {"manager", "tmpl"}, isDevelopment \in BOOLEAN :
          tm = [variant |-> variant, developmentMode |-> isDevelopment,
                templates |-> [key \in CacheKeys |-> 0],
                compiledFor |-> [key \in CacheKeys |-> <<>>],
                loadStats |-> [key \in CacheKeys |-> 0], started |-> 0]
    /\ disk = 0
    /\ loads = [p \in Renderers |-> NoLoad]

\* renderer p calls loadTemplate(names...): up to the return of a cached
\* template
LoadLookup(p, names) ==
    LET key == CacheKey(names)
        got == lookup(tm, key)
    IN  /\ loads[p].pc \in {"idle", "done"}
        /\ tm.started < MaxLoads
        /\ loads' = [loads EXCEPT ![p] =
                        [pc |-> IF got.found THEN "done" ELSE "parse", names |-> names,
                         found |-> got.found, parsed |-> FALSE, err |-> "",
                         tmpl |-> got.tmpl,
                         from |-> IF got.found THEN tm.compiledFor[key] ELSE <<>>]]
        /\ tm' = [(IF got.found THEN updateLoadStats(tm, key) ELSE tm)
                     EXCEPT !.started = @ + 1]
        /\ UNCHANGED <<disk, offTemplate>>

\* renderer p, its key not found: the rest of loadTemplate
LoadParse(p) ==
    LET names == loads[p].names
        key == CacheKey(names)
        out == parse(tm, names, disk)
        stored == IF ~tm.developmentMode
                  THEN [tm EXCEPT !.templates[key] = out.tmpl, !.compiledFor[key] = names]
                  ELSE tm
    IN  /\ loads[p].pc = "parse"
        /\ loads' = [loads EXCEPT ![p] = [@ EXCEPT !.pc = "done", !.parsed = out.err = "",
                                                   !.err = out.err, !.tmpl = out.tmpl,
                                                   !.from = IF out.err = "" THEN names
                                                            ELSE <<>>]]
        /\ tm' = IF out.err = "" THEN updateLoadStats(stored, key) ELSE tm
        /\ UNCHANGED <<disk, offTemplate>>

\* ClearCache
ClearCache ==
    /\ tm' = [tm EXCEPT !.templates = [key \in CacheKeys |-> 0],
                        !.compiledFor = [key \in CacheKeys |-> <<>>],
                        !.loadStats = [key \in CacheKeys |-> 0]]
    /\ UNCHANGED <<disk, loads, offTemplate>>

\* TemplateManager.SetDevelopmentMode(isDev)
SetDevelopmentMode(isDev) ==
    /\ tm.variant = "manager"
    /\ tm' = [tm EXCEPT !.developmentMode = isDev]
    /\ UNCHANGED <<disk, loads, offTemplate>>

\* a template file is edited on disk
EditFile ==
    /\ disk < MaxEdits
    /\ disk' = disk + 1
    /\ UNCHANGED <<tm, loads, offTemplate>>

NextTemplate ==
    \/ \E p \in Renderers, names \in NameLists : LoadLookup(p, names)
    \/ \E p \in Renderers : LoadParse(p)
    \/ ClearCache
    \/ \E isDev \in BOOLEAN : SetDevelopmentMode(isDev)
    \/ EditFile

SpecTemplate == InitTemplate /\ [][NextTemplate]_vars

\* C19: outside development mode a loadTemplate call whose key is in the
\* cache returns the cached template without parsing, a successful parse
\* puts its template in the cache under the key, and a key leaves the cache
\* only when the cache is cleared; in development mode no call returns a
\* cached template and no parse changes the cache.
C19_CacheByMode ==
    [][\A p \in Renderers :
          LET key == CacheKey(loads'[p].names)
          IN  /\ (loads[p].pc \in {"idle", "done"} /\ loads'[p] # loads[p]
                    /\ ~tm.developmentMode /\ tm.templates[key] # 0) =>
                     /\ loads'[p].pc = "done" /\ loads'[p].found /\ ~loads'[p].parsed
                     /\ loads'[p].tmpl = tm.templates[key]
                     /\ tm'.templates = tm.templates
              /\ (loads[p].pc = "parse" /\ loads'[p].pc = "done" /\ loads'[p].err = ""
                    /\ ~tm.developmentMode) =>
                     tm'.templates[key] = loads'[p].tmpl /\ loads'[p].tmpl = disk + 1
              /\ (loads[p].pc \in {"idle", "done"} /\ loads'[p] # loads[p]
                    /\ tm.developmentMode) =>
                     loads'[p].pc = "parse" /\ ~loads'[p].found
              /\ (loads[p].pc = "parse" /\ loads'[p].pc = "done" /\ tm.developmentMode) =>
                     tm'.templates = tm.templates
              /\ \A k \in CacheKeys :
                    (tm.templates[k] # 0 /\ tm'.templates[k] = 0) =>
                        tm'.templates = [kk \in CacheKeys |-> 0]]_vars

\* outside development mode a renderer has been given the cached template
\* of an earlier edition of the files, without parsing
C19_StaleHit ==
    \E p \in Renderers :
        /\ ~tm.developmentMode /\ loads[p].pc = "done" /\ loads[p].found
        /\ ~loads[p].parsed /\ loads[p].tmpl = 1 /\ disk = 1
        /\ tm.templates[CacheKey(loads[p].names)] = 1

\* in development mode a renderer has parsed the files again after an edit
\* and the cache is empty
C19_DevReparsed ==
    \E p \in Renderers :
        /\ tm.developmentMode /\ tm.variant = "tmpl" /\ loads[p].pc = "done"
        /\ loads[p].parsed /\ loads[p].tmpl = 2 /\ tm.started > 1
        /\ \A k \in CacheKeys : tm.templates[k] = 0

(***************************************************************************)
(* RecoveryMiddleware (unnamed/part_014, part_015, part_016) in front of a *)
(* chain of handlers.  gin's c.Next() is a loop over the chain; a panic    *)
(* unwinds every c.Next() in progress up to the deferred function of       *)
(* RecoveryMiddleware, after which the engine's own loop goes on with the  *)
(* handler after the one that panicked, unless the context was aborted.    *)
(***************************************************************************)

\* what a handler behind RecoveryMiddleware does: return, write a response
\* (response.Success), panic, write and then panic, or call c.Next() and
\* return
Behaviours == {"return", "write", "panic", "write-panic", "next"}

MaxChain == 3

\* the chains tried
Chains == UNION {[1..n -> Behaviours] : n \in 1..MaxChain}

\* the context gin hands to RecoveryMiddleware; ran lists the handlers
\* started, body what kind of body the response has
NewRequest ==
    [index |-> 0, status |-> Success, written |-> FALSE, code |-> 0, body |-> "none",
     aborted |-> FALSE, panic |-> FALSE, recovered |-> FALSE, ran |-> <<>>,
     wroteBefore |-> FALSE, ranAtPanic |-> 0]

\* a panic is raised in the handler running
Panic(c) ==
    [c EXCEPT !.panic = TRUE, !.wroteBefore = c.written, !.ranAtPanic = Len(c.ran)]

\* response.Success(c, data), c.JSON(...) of an envelope: once the head is
\* sent the status stays and the bytes follow the body already sent
Envelope(c, status, code) ==
    IF c.written THEN [c EXCEPT !.body = "appended"]
    ELSE [JSON(c, status, code) EXCEPT !.body = "envelope"]

\* r := recover(), r != nil: the panic stops here
Recovered(c) == [c EXCEPT !.panic = FALSE, !.recovered = TRUE]

\* errors.RenderError(c.Writer, err, stack, isDevelopment): the production
\* page is a bare WriteHeader(500), which gin only records; the development
\* page is written
RenderError(c, isDevelopment) ==
    IF c.written THEN (IF isDevelopment THEN [c EXCEPT !.body = "appended"] ELSE c)
    ELSE IF isDevelopment
    THEN [c EXCEPT !.status = InternalServerError, !.written = TRUE, !.body = "html"]
    ELSE [c EXCEPT !.status = InternalServerError]

\* what the deferred function does with a recovered panic
Respond(c, conf) ==
    CASE conf.variant = "part_014" ->
             Abort(Envelope(c, HTTPStatus(InternalServerError), InternalServerError))
      [] conf.variant = "part_015" -> Abort(RenderError(c, conf.debug))
      [] conf.variant = "part_016" ->
             Envelope(Abort(c), InternalServerError, InternalServerError)

RECURSIVE RecoverNext(_, _, _)
RECURSIVE RecoverInvoke(_, _, _)

\* handlers[c.index](c): RecoveryMiddleware at index 1, then the chain
RecoverInvoke(c, chain, conf) ==
    IF c.index = 1
    THEN LET d == RecoverNext(c, chain, conf)
         IN  IF d.panic THEN Respond(Recovered(d), conf) ELSE d
    ELSE LET b == chain[c.index - 1]
             c1 == [c EXCEPT !.ran = Append(@, c.index - 1)]
         IN  CASE b = "return" -> c1
               [] b = "write" -> Envelope(c1, Success, Success)
               [] b = "panic" -> Panic(c1)
               [] b = "write-panic" -> Panic(Envelope(c1, Success, Success))
               [] b = "next" -> RecoverNext(c1, chain, conf)

\* c.Next()
RecoverNext(c, chain, conf) ==
    LET RECURSIVE Loop(_)
        Loop(d) ==
            IF ~d.panic /\ ~d.aborted /\ d.index <= Len(chain) + 1
            THEN LET e == RecoverInvoke(d, chain, conf)
                 IN  IF e.panic THEN e ELSE Loop([e EXCEPT !.index = @ + 1])
            ELSE d
    IN  Loop([c EXCEPT !.index = @ + 1])

RecoveryVariants == {"part_014", "part_015", "part_016"}

NoServed == [chain |-> <<>>, c |-> NewRequest]

InitRecover ==
    /\ IdleLimiter /\ IdleIP /\ IdleRoute /\ IdleUrl /\ IdleGzip /\ IdleFlash /\ IdleUser /\ IdleSession /\ IdleTemplate /\ IdleBus
    /\ \E variant \in RecoveryVariants, debug \in BOOLEAN :
          recconf = [variant |-> variant, debug |-> debug]
    /\ rctx = NoServed

\* the engine serves a request through RecoveryMiddleware and the chain
RecoverServe(chain) ==
    /\ rctx' = [chain |-> chain, c |-> RecoverNext(NewRequest, chain, recconf)]
    /\ UNCHANGED <<recconf, offRecover>>

NextRecover == \E chain \in Chains : RecoverServe(chain)

SpecRecover == InitRecover /\ [][NextRecover]_vars

\* C20 as stated: a request in which a handler panicked ends with the panic
\* recovered and not propagated, status 500, the chain stopped (the context
\* aborted and no handler started after the panic).
C20_PanicGives500 ==
    rctx.c.ranAtPanic > 0 =>
        /\ rctx.c.recovered /\ ~rctx.c.panic
        /\ rctx.c.status = InternalServerError
        /\ rctx.c.aborted /\ Len(rctx.c.ran) = rctx.c.ranAtPanic

\* The part of C20 every variant upholds: a request in which a handler
\* panicked ends with the panic recovered and not propagated and the chain
\* stopped; its status is 500 when no response had been written before the
\* panic.
C20_PanicRecovered ==
    rctx.c.ranAtPanic > 0 =>
        /\ rctx.c.recovered /\ ~rctx.c.panic
        /\ ~rctx.c.wroteBefore => rctx.c.status = InternalServerError
        /\ rctx.c.aborted /\ Len(rctx.c.ran) = rctx.c.ranAtPanic

\* A middleware called c.Next(), the handler behind it panicked before any
\* write, and the handler after that one never started.
PanicBehindNext ==
    /\ rctx.chain = <<"next", "panic", "write">>
    /\ rctx.c.recovered /\ ~rctx.c.panic /\ rctx.c.status = InternalServerError
    /\ rctx.c.ran = <<1, 2>> /\ rctx.c.aborted

\* ---------------------------------------------------------------------
\* pkg/eventbus: EventBus, for one event name.  Every registration uses a
\* handler function of its own, named by a number.

MaxListeners == 3

MaxEmits == 3

MaxOff == 1

EventHandlers == 1..MaxListeners

Goroutines == {1, 2}

\* New(): no listeners, no once indexes
New == [listeners |-> <<>>, onceMap |-> {}]

\* append(handlers[:i], handlers[i+1:]...), i counted from 0
RemoveAt(handlers, i) == SubSeq(handlers, 1, i) \o SubSeq(handlers, i + 2, Len(handlers))

\* EventBus.On
On(b, handler) == [b EXCEPT !.listeners = Append(@, handler)]

\* EventBus.Once: the index the handler gets is remembered
Once(b, handler) ==
    [listeners |-> Append(b.listeners, handler),
     onceMap |-> b.onceMap \cup {Len(b.listeners)}]

RECURSIVE OffScan(_, _, _)
\* Off: for i := len(handlers) - 1; i >= 0; i--, from index i on
OffScan(b, h, i) ==
    IF i < 0 THEN b
    ELSE IF b.listeners[i + 1] = h
         THEN OffScan([listeners |-> RemoveAt(b.listeners, i),
                       onceMap |-> b.onceMap \ {i}], h, i - 1)
         ELSE OffScan(b, h, i - 1)

RECURSIVE OffEach(_, _)
\* Off: for _, h := range handler
OffEach(b, handler) ==
    IF handler = <<>> THEN b
    ELSE OffEach(OffScan(b, Head(handler), Len(b.listeners) - 1), Tail(handler))

\* EventBus.Off
Off(b, handler) == IF Len(handler) = 0 THEN New ELSE OffEach(b, handler)

\* Emit, under the read lock: the copy of the listeners and the once indexes
Copy(b) == [handlers |-> b.listeners, onceIndexes |-> b.onceMap]

RECURSIVE RemoveEach(_, _)
\* removeOnceListeners: the indexes from the largest down
RemoveEach(handlers, indexes) ==
    IF indexes = {} THEN handlers
    ELSE LET index == CHOOSE i \in indexes : \A j \in indexes : j <= i
         IN  RemoveEach(IF index < Len(handlers) THEN RemoveAt(handlers, index)
                        ELSE handlers,
                        indexes \ {index})

\* EventBus.removeOnceListeners
removeOnceListeners(b, indexes) ==
    [listeners |-> RemoveEach(b.listeners, indexes), onceMap |-> {}]

\* how many times handler h stands in a list
Times(handlers, h) == Cardinality({i \in DOMAIN handlers : handlers[i] = h})

\* the elements of s that are in keep, in order
Keep(s, keep) == SelectSeq(s, LAMBDA h : h \in keep)

NoEmit == [pc |-> "done", handlers |-> <<>>, onceIndexes |-> {}, owed |-> {}, invoked |-> <<>>]

InFlight == {g \in Goroutines : emits[g].pc # "done"}

InitBus ==
    /\ IdleLimiter /\ IdleIP /\ IdleRoute /\ IdleUrl /\ IdleGzip /\ IdleFlash /\ IdleUser /\ IdleSession /\ IdleTemplate /\ IdleRecover
    /\ eb = New
    /\ emits = [g \in Goroutines |-> NoEmit]
    /\ heard = [kind |-> [h \in EventHandlers |-> "none"],
                ought |-> <<>>,
                invoked |-> [h \in EventHandlers |-> 0],
                due |-> [h \in EventHandlers |-> 0],
                emitted |-> 0,
                overlapped |-> FALSE]

\* the handler functions not registered yet
Fresh == {h \in EventHandlers : heard.kind[h] = "none"}

\* the observer notes that a call was made while an Emit was running
Noted(o) == [o EXCEPT !.overlapped = @ \/ InFlight # {}]

\* eb.On(event, handler)
CallOn ==
    /\ Fresh # {}
    /\ LET h == CHOOSE x \in Fresh : \A y \in Fresh : x <= y
       IN  /\ eb' = On(eb, h)
           /\ heard' = [Noted(heard) EXCEPT !.kind[h] = "on", !.ought = Append(@, h)]
    /\ UNCHANGED <<emits, offBus>>

\* eb.Once(event, handler)
CallOnce ==
    /\ Fresh # {}
    /\ LET h == CHOOSE x \in Fresh : \A y \in Fresh : x <= y
       IN  /\ eb' = Once(eb, h)
           /\ heard' = [Noted(heard) EXCEPT !.kind[h] = "once", !.ought = Append(@, h)]
    /\ UNCHANGED <<emits, offBus>>

\* eb.Off(event, handler...)
CallOff(handler) ==
    /\ eb' = Off(eb, handler)
    /\ heard' = [Noted(heard) EXCEPT
                   !.ought = IF handler = <<>> THEN <<>>
                             ELSE Keep(@, EventHandlers \ {handler[i] : i \in DOMAIN handler})]
    /\ UNCHANGED <<emits, offBus>>

\* eb.Clear()
CallClear ==
    /\ eb' = New
    /\ heard' = [Noted(heard) EXCEPT !.ought = <<>>]
    /\ UNCHANGED <<emits, offBus>>

\* Emit, lines 50-61: under the read lock
EmitCopy(g) ==
    /\ emits[g].pc = "done"
    /\ heard.emitted < MaxEmits
    /\ LET here == {heard.ought[i] : i \in DOMAIN heard.ought}
           once == {h \in here : heard.kind[h] = "once"}
       IN  /\ emits' = [emits EXCEPT ![g] =
                          [pc |-> "invoke", handlers |-> Copy(eb).handlers,
                           onceIndexes |-> Copy(eb).onceIndexes,
                           owed |-> here \ once, invoked |-> <<>>]]
           /\ heard' = [Noted(heard) EXCEPT
                          !.emitted = @ + 1,
                          !.due = [h \in EventHandlers |-> IF h \in here THEN @[h] + 1 ELSE @[h]],
                          !.ought = Keep(@, EventHandlers \ once)]
    /\ UNCHANGED <<eb, offBus>>

\* Emit, lines 64-66: the handlers copied are called
EmitHandlers(g) ==
    /\ emits[g].pc = "invoke"
    /\ emits' = [emits EXCEPT ![g].invoked = emits[g].handlers,
                              ![g].pc = IF emits[g].onceIndexes # {} THEN "remove" ELSE "done"]
    /\ heard' = [heard EXCEPT !.invoked =
                    [h \in EventHandlers |-> @[h] + Times(emits[g].handlers, h)]]
    /\ UNCHANGED <<eb, offBus>>

\* Emit, lines 69-71: removeOnceListeners, under the write lock
EmitRemove(g) ==
    /\ emits[g].pc = "remove"
    /\ eb' = removeOnceListeners(eb, emits[g].onceIndexes)
    /\ emits' = [emits EXCEPT ![g].pc = "done"]
    /\ UNCHANGED <<heard, offBus>>

OffArgs == UNION {[1..n -> EventHandlers] : n \in 0..MaxOff}

NextBus ==
    \/ CallOn
    \/ CallOnce
    \/ \E handler \in OffArgs : CallOff(handler)
    \/ CallClear
    \/ \E g \in Goroutines : EmitCopy(g) \/ EmitHandlers(g) \/ EmitRemove(g)

SpecBus == InitBus /\ [][NextBus]_vars

\* no call has overlapped an Emit, and no Emit is running
Sequential == ~heard.overlapped /\ InFlight = {}

\* C21: in a run whose calls do not overlap, a listener registered with Once
\* has been invoked by the first Emit after its registration that found it
\* not removed by Off or Clear, and by no other Emit.
C21_OnceInvokedOnce ==
    Sequential =>
        \A h \in EventHandlers :
            heard.kind[h] = "once" => heard.invoked[h] = heard.due[h]

\* C22: an Emit that has called its handlers has called every listener
\* registered with On, and not removed by Off or Clear when the Emit began,
\* exactly once.
C22_EveryOnListenerOnce ==
    \A g \in Goroutines :
        emits[g].pc # "invoke" =>
            \A h \in emits[g].owed : Times(emits[g].invoked, h) = 1

\* With no Once registration ever made, every listener registered with On
\* has been invoked once by every Emit it was due in and that has called
\* its handlers: N listeners and M Emits make N*M invocations.
OnOnlyCounts ==
    (\A h \in EventHandlers : heard.kind[h] # "once") =>
        /\ C22_EveryOnListenerOnce
        /\ InFlight = {} => \A h \in EventHandlers : heard.invoked[h] = heard.due[h]

\* C25: in a run whose calls do not overlap, the bus holds the listeners
\* registered, less those removed by Off or Clear and less the Once
\* listeners that were present at an Emit.
C25_EmitRemovesOnceOnly ==
    Sequential => eb.listeners = heard.ought

\* C26: a listener registered with Once has been invoked at most once,
\* however the Emit calls interleave.
C26_OnceAtMostOnce ==
    \A h \in EventHandlers : heard.kind[h] = "once" => heard.invoked[h] <= 1

\* ---------------------------------------------------------------------
\* The gzip writer again: the minimum length and the encoding of the body.

\* C23: a response answered through the wrapper of GzipWithConfig whose
\* handler wrote a body of fewer bytes than the configured minimum length
\* has no chunk of its body gzip-compressed and no Content-Encoding gzip.
C23_ShortBodyNotCompressed ==
    (/\ gzrun.variant = "config" /\ gzrun.phase = "done" /\ gzrun.wrapped
     /\ ~gzrun.panicked
     /\ gzw.size > 0 /\ gzw.size < gzw.minLength) =>
        ~Compressed(rw) /\ rw.sent.ContentEncoding # <<"g", "z", "i", "p">>

\* C29: of a response written through the wrapper of GzipWithConfig, every
\* chunk of body handed to gin's writer is gzip-encoded if the response was
\* sent with Content-Encoding gzip, and raw if it was not.
C29_EncodedIffHeader ==
    (gzrun.variant = "config" /\ gzrun.wrapped /\ rw.wrote) =>
        \A n \in DOMAIN rw.body :
            rw.body[n].enc = "gzip" <=> rw.sent.ContentEncoding = <<"g", "z", "i", "p">>

\* ---------------------------------------------------------------------
\* Register, two calls racing for one username.

\* C24: a Register call that passed its checks and whose insert finds a row
\* with its username, put there by a concurrent call after the check, gets
\* the database error, not the bad-request error, and adds no row.
C24_SecondInsertFails ==
    [][\A q \in Callers :
         (/\ calls[q].pc = "create" /\ calls'[q].pc = "done" /\ ~calls'[q].failed
          /\ \E u \in users : u.Username = calls[q].Username) =>
             /\ calls'[q].code = DatabaseError /\ calls'[q].code # BadRequest
             /\ calls'[q].created = 0
             /\ users' = users]_vars

\* two calls for one username both found it free; the first inserted its row
\* and the second was answered with the database error
C24_BothPassedTheCheck ==
    \E p, q \in Callers :
        /\ p # q /\ calls[p].pc = "done" /\ calls[q].pc = "done"
        /\ calls[p].Username = calls[q].Username /\ calls[p].Email # calls[q].Email
        /\ ~calls[p].held /\ ~calls[q].held /\ ~calls[p].failed /\ ~calls[q].failed
        /\ calls[p].created # 0 /\ \E u \in users : u.ID = calls[p].created
        /\ calls[q].code = DatabaseError /\ calls[q].created = 0

\* ---------------------------------------------------------------------
\* The route builder again: what a pattern has to match.

\* the whole of value conforms to pattern, for the patterns in use
Conforms(pattern, value) ==
    CASE pattern = <<".", "*">> -> TRUE
      [] pattern = <<"\\", "d", "+">> -> value # <<>> /\ \A i \in 1..Len(value) : value[i] \in Digit
      [] pattern = <<"[", "a", "-", "z", "]", "+">> ->
             value # <<>> /\ \A i \in 1..Len(value) : value[i] \in Lower

\* C27: a request reaches the handler of a compiled route only if the whole
\* value of every parameter of the template conforms to its pattern.
C27_WholeValueConforms ==
    hit.handlerRan =>
        \A n \in DOMAIN route.params :
            Conforms(route.params[n].Pattern, Param(hit, route.params[n].Name))

\* ---------------------------------------------------------------------
\* The per-IP limiter again: how many requests of one IP a window admits.

\* n requests in a window of length T are within capacity + rate*T
WithinBound(n, T, conf) ==
    LET d == n - conf.capacity - conf.rate * T.s
    IN  d <= 0 \/ (d < conf.rate /\ d * Interval <= conf.rate * T.ns)

\* C28: of the requests of one client IP, those admitted between any two
\* admitted ones, T apart, number at most capacity + rate*T.
C28_WindowBound ==
    \A i \in DOMAIN admits : \A j \in i..Len(admits) :
        admits[i].ip = admits[j].ip =>
            WithinBound(Cardinality({k \in i..j : admits[k].ip = admits[i].ip}),
                        TimeSub(admits[j].at, admits[i].at), ipconf)

\* With no limiter deleted while a request holds it and no limiter created
\* twice for one IP, the bound holds: every IP has at most one object.
OneLimiterPerIP ==
    Len(heap) <= Cardinality({k \in IPs : limiters[k] # 0}) => C28_WindowBound

\* ---------------------------------------------------------------------
\* The template cache again: which render a cache entry serves.

\* no name of the list has a ":" in it
NoColon(names) == \A n \in DOMAIN names : ~Contains(names[n], <<":">>)

\* C30: a loadTemplate call that returns a template returns one compiled
\* from the files of the very list of names it was called with.
C30_OwnTemplate ==
    \A p \in Renderers :
        (loads[p].pc = "done" /\ loads[p].err = "" /\ loads[p].tmpl # 0) =>
            loads[p].from = loads[p].names

\* For lists whose names have no ":" the key tells the lists apart: a call
\* with such a list gets a template compiled for it unless the entry was
\* made by a list with a ":" in a name.
ColonFreeOwnTemplate ==
    \A p \in Renderers :
        (/\ loads[p].pc = "done" /\ loads[p].err = "" /\ loads[p].tmpl # 0
         /\ NoColon(loads[p].names) /\ NoColon(loads[p].from)) =>
            loads[p].from = loads[p].names

====
